---- MODULE Spec2Model ----
(***************************************************************************)
(* A model of the calc-formatter expression engine: the tokenizer, the     *)
(* pretty-printer and minifier, the comment stripper, the custom-function  *)
(* expansion loop and the call validator.                                  *)
(*                                                                         *)
(* A text is a sequence of one-character strings.  Every operator below is *)
(* a line-by-line transcription of the JavaScript function of the same     *)
(* name; indices are 1-based here and 0-based in the source.               *)
(***************************************************************************)
EXTENDS Integers, Sequences, FiniteSets, TLC

VARIABLES
  doc,      \* text transformations: the current text
  orig,     \* text transformations: the text given at the start
  prev,     \* text transformations: the text before the last transformation
  cmds,     \* text transformations: the functions applied so far, in order
  CUSTOM_FUNCTIONS,  \* expansion: the loaded custom function definitions
  formulaArg,        \* expansion: the argument of expandCustomFunctions
  expanded,          \* expansion: the local variable expanded
  iteration,         \* expansion: the local variable iteration
  changed,           \* expansion: the local variable changed
  funcIndex,         \* expansion: position of the for loop over CUSTOM_FUNCTIONS
  rewrites,          \* expansion: call sites replaced in the current iteration
  pc,                \* expansion: where expandCustomFunctions stands
  typeGiven,         \* type system: the type an argument was given
  typeExpected,      \* type system: the type a parameter expects
  compatible,        \* type system: <<what isTypeCompatible returned>>, <<>> before the call
  expression,        \* type system: the expression handed to inferExpressionType
  variableTable,     \* type system: the variables handed to inferExpressionType
  exprType,          \* type system: <<what inferExpressionType returned>>, <<>> before the call
  textDocuments,     \* diagnostics provider: per uri <<>> (closed) or <<[languageId, text]>>
  diagnosticCollection, \* diagnostics provider: per uri <<>> (no entry) or <<the stored diagnostics>>
  lastPass,          \* diagnostics provider: per uri the arguments of the latest pass, <<>> if none
  fileSystem,        \* form description: per folder <<>> (no file) or <<[json, mtime]>>
  formDescriptionCache, \* form description: per folder <<>> (no entry) or <<[variables, mtime]>>
  notifications,     \* form description: the folders with a watcher notification not yet processed
  document,          \* validation: the text of the document
  formVariables,     \* validation: the variables of the form description
  diagnostics,       \* validation: the diagnostics validateFunctionCalls returned
  missingCommas,     \* validation: the findings detectMissingCommas returned
  validated          \* validation: validateFunctionCalls has run

textVars == <<doc, orig, prev, cmds>>

expandVars ==
  <<CUSTOM_FUNCTIONS, formulaArg, expanded, iteration, changed, funcIndex, rewrites, pc>>

validateVars == <<document, formVariables, diagnostics, missingCommas, validated>>

compatibleVars == <<typeGiven, typeExpected, compatible>>

inferVars == <<expression, variableTable, exprType>>

diagnosticsVars == <<textDocuments, diagnosticCollection, lastPass>>

cacheVars == <<fileSystem, formDescriptionCache, notifications>>

vars ==
  <<textVars, expandVars, validateVars, compatibleVars, inferVars, diagnosticsVars, cacheVars>>

\* the part of the state a specification does not use stays as it is here
TextIdle == doc = <<>> /\ orig = <<>> /\ prev = <<>> /\ cmds = <<>>

ExpandIdle ==
  /\ CUSTOM_FUNCTIONS = <<>>
  /\ formulaArg = <<>>
  /\ expanded = <<>>
  /\ iteration = 0
  /\ changed = FALSE
  /\ funcIndex = 0
  /\ rewrites = 0
  /\ pc = "idle"

ValidateIdle ==
  /\ document = <<>>
  /\ formVariables = <<>>
  /\ diagnostics = <<>>
  /\ missingCommas = <<>>
  /\ validated = FALSE

CompatibleIdle ==
  /\ typeGiven = "none"
  /\ typeExpected = "none"
  /\ compatible = <<>>

InferIdle ==
  /\ expression = <<>>
  /\ variableTable = <<>>
  /\ exprType = <<>>

DiagnosticsIdle ==
  /\ textDocuments = <<>>
  /\ diagnosticCollection = <<>>
  /\ lastPass = <<>>

CacheIdle ==
  /\ fileSystem = <<>>
  /\ formDescriptionCache = <<>>
  /\ notifications = {}

notText ==
  <<expandVars, validateVars, compatibleVars, inferVars, diagnosticsVars, cacheVars>>

NotTextIdle ==
  ExpandIdle /\ ValidateIdle /\ CompatibleIdle /\ InferIdle /\ DiagnosticsIdle /\ CacheIdle

notExpand ==
  <<textVars, validateVars, compatibleVars, inferVars, diagnosticsVars, cacheVars>>

NotExpandIdle ==
  TextIdle /\ ValidateIdle /\ CompatibleIdle /\ InferIdle /\ DiagnosticsIdle /\ CacheIdle

notValidate ==
  <<textVars, expandVars, compatibleVars, inferVars, diagnosticsVars, cacheVars>>

NotValidateIdle ==
  TextIdle /\ ExpandIdle /\ CompatibleIdle /\ InferIdle /\ DiagnosticsIdle /\ CacheIdle

notCompatible ==
  <<textVars, expandVars, validateVars, inferVars, diagnosticsVars, cacheVars>>

NotCompatibleIdle ==
  TextIdle /\ ExpandIdle /\ ValidateIdle /\ InferIdle /\ DiagnosticsIdle /\ CacheIdle

notInfer ==
  <<textVars, expandVars, validateVars, compatibleVars, diagnosticsVars, cacheVars>>

NotInferIdle ==
  TextIdle /\ ExpandIdle /\ ValidateIdle /\ CompatibleIdle /\ DiagnosticsIdle /\ CacheIdle

notDiagnostics ==
  <<textVars, expandVars, validateVars, compatibleVars, inferVars, cacheVars>>

NotDiagnosticsIdle ==
  TextIdle /\ ExpandIdle /\ ValidateIdle /\ CompatibleIdle /\ InferIdle /\ CacheIdle

notCache ==
  <<textVars, expandVars, validateVars, compatibleVars, inferVars, diagnosticsVars>>

NotCacheIdle ==
  TextIdle /\ ExpandIdle /\ ValidateIdle /\ CompatibleIdle /\ InferIdle /\ DiagnosticsIdle

(***************************************************************************)
(* String helpers (String.prototype.trim, trimEnd, startsWith, endsWith,   *)
(* split, join, repeat).                                                   *)
(***************************************************************************)
WS == {" ", "\n", "\t"}

IsWS(c) == c \in WS

RECURSIVE trimEnd(_)
trimEnd(s) ==
  IF s = <<>> THEN s
  ELSE IF IsWS(s[Len(s)]) THEN trimEnd(SubSeq(s, 1, Len(s) - 1))
  ELSE s

RECURSIVE trimStart(_)
trimStart(s) ==
  IF s = <<>> THEN s
  ELSE IF IsWS(s[1]) THEN trimStart(Tail(s))
  ELSE s

trim(s) == trimStart(trimEnd(s))

startsWith(s, p) == Len(s) >= Len(p) /\ SubSeq(s, 1, Len(p)) = p

endsWith(s, p) == Len(s) >= Len(p) /\ SubSeq(s, Len(s) - Len(p) + 1, Len(s)) = p

\* s[i] of the source, with "" standing for undefined (an index out of range)
At(s, i) == IF i >= 1 /\ i <= Len(s) THEN s[i] ELSE ""

\* the first index j >= i with s[j] a line feed, Len(s) + 1 when there is none
RECURSIVE LineEnd(_, _)
LineEnd(s, i) ==
  IF i > Len(s) THEN Len(s) + 1
  ELSE IF s[i] = "\n" THEN i
  ELSE LineEnd(s, i + 1)

\* input.split(/\r?\n/): the model's texts hold no carriage return
RECURSIVE splitLines(_)
splitLines(s) ==
  LET j == LineEnd(s, 1) IN
    IF j > Len(s) THEN <<s>>
    ELSE <<SubSeq(s, 1, j - 1)>> \o splitLines(SubSeq(s, j + 1, Len(s)))

RECURSIVE join(_, _)
join(ls, sep) ==
  IF ls = <<>> THEN <<>>
  ELSE IF Len(ls) = 1 THEN ls[1]
  ELSE ls[1] \o sep \o join(Tail(ls), sep)

RECURSIVE repeat(_, _)
repeat(s, n) == IF n <= 0 THEN <<>> ELSE s \o repeat(s, n - 1)

(***************************************************************************)
(* The tokenizer.                                                          *)
(***************************************************************************)
Tok(type, value) == [type |-> type, value |-> value]

PUNCT == {",", ";", "(", ")", "{", "}", "[", "]"}

OPERATORS == {"+", "-", "*", "/", "^", "&", "%", "=", ">", "<", "?", ":"}

TWOCHAR == {<<">", "=">>, <<"<", "=">>, <<"<", ">">>}

\* flushBuffer of tokenize: st is the record of the loop's local variables
flushBuffer(st) ==
  IF st.buffer = <<>> THEN st
  ELSE [st EXCEPT !.tokens = Append(@, Tok("word", st.buffer)),
                  !.buffer = <<>>,
                  !.inVariable = FALSE]

\* one pass of the body of tokenize's for loop at index st.i
tokenizeStep(source, st) ==
  LET i  == st.i
      ch == source[i]
  IN
  IF ~st.inString /\ ch = "/" /\ At(source, i + 1) = "/" THEN
    LET f == flushBuffer(st)
        j == LineEnd(source, i + 2)
    IN [f EXCEPT !.tokens = Append(@, Tok("comment", SubSeq(source, i, j - 1))),
                 !.i = j]
  ELSE IF st.inString THEN
    IF ch = st.stringChar THEN
      IF i + 1 <= Len(source) /\ source[i + 1] = st.stringChar
      THEN [st EXCEPT !.buffer = @ \o <<ch, source[i + 1]>>, !.i = i + 2]
      ELSE [st EXCEPT !.tokens = Append(@, Tok("string", st.buffer \o <<ch>>)),
                      !.buffer = <<>>,
                      !.inString = FALSE,
                      !.i = i + 1]
    ELSE [st EXCEPT !.buffer = @ \o <<ch>>, !.i = i + 1]
  ELSE IF ch = "\"" \/ ch = "'" THEN
    [flushBuffer(st) EXCEPT !.buffer = <<ch>>, !.stringChar = ch,
                            !.inString = TRUE, !.i = i + 1]
  ELSE IF ch = "$" THEN
    [flushBuffer(st) EXCEPT !.buffer = <<ch>>, !.inVariable = TRUE, !.i = i + 1]
  ELSE IF st.inVariable /\ ch = "/" THEN
    [st EXCEPT !.buffer = @ \o <<ch>>, !.i = i + 1]
  ELSE IF IsWS(ch) THEN
    [flushBuffer(st) EXCEPT !.i = i + 1]
  ELSE IF <<ch, At(source, i + 1)>> \in TWOCHAR THEN
    [flushBuffer(st) EXCEPT !.tokens = Append(@, Tok("operator", <<ch, source[i + 1]>>)),
                            !.i = i + 2]
  ELSE IF ch \in PUNCT THEN
    [flushBuffer(st) EXCEPT !.tokens = Append(@, Tok("punct", <<ch>>)), !.i = i + 1]
  ELSE IF ch \in OPERATORS THEN
    [flushBuffer(st) EXCEPT !.tokens = Append(@, Tok("operator", <<ch>>)), !.i = i + 1]
  ELSE [st EXCEPT !.buffer = @ \o <<ch>>, !.i = i + 1]

RECURSIVE tokenizeLoop(_, _)
tokenizeLoop(source, st) ==
  IF st.i > Len(source)
  THEN IF st.buffer # <<>> THEN Append(st.tokens, Tok("word", st.buffer)) ELSE st.tokens
  ELSE tokenizeLoop(source, tokenizeStep(source, st))

tokenize(source) ==
  tokenizeLoop(source, [i |-> 1, buffer |-> <<>>, inString |-> FALSE,
                        stringChar |-> "", inVariable |-> FALSE, tokens |-> <<>>])

(***************************************************************************)
(* The minifier of one formula.                                            *)
(***************************************************************************)
NoToken == Tok("none", <<>>)

\* the body of the tokens.forEach callback of minifySingleFormula
minifyToken(acc, token) ==
  IF token.type = "operator" \/ token.type = "punct" THEN
    LET r == IF token.value = <<")">> \/ token.value = <<"}">>
             THEN trimEnd(acc.result) ELSE acc.result
    IN [result |-> r \o token.value, lastToken |-> token]
  ELSE IF token.type = "word" \/ token.type = "string" THEN
    LET r == IF acc.lastToken.type = "word" \/ acc.lastToken.type = "string"
             THEN acc.result \o <<" ">> ELSE acc.result
    IN [result |-> r \o token.value, lastToken |-> token]
  ELSE acc

RECURSIVE minifyLoop(_, _, _)
minifyLoop(tokens, k, acc) ==
  IF k > Len(tokens) THEN acc
  ELSE minifyLoop(tokens, k + 1, minifyToken(acc, tokens[k]))

minifySingleFormula(formula) ==
  LET tokens == tokenize(formula) IN
    IF tokens = <<>> THEN trim(formula)
    ELSE trim(minifyLoop(tokens, 1, [result |-> <<>>, lastToken |-> NoToken]).result)

(***************************************************************************)
(* The pretty-printer of one formula.                                      *)
(***************************************************************************)
INDENT_UNIT == <<" ", " ">>

\* countArgs: the loop from index i with its locals depth, argCount, hasContent
RECURSIVE countArgsLoop(_, _, _, _, _)
countArgsLoop(tokens, i, depth, argCount, hasContent) ==
  IF i > Len(tokens) THEN argCount
  ELSE LET token == tokens[i] IN
    IF token.type = "punct" THEN
      IF token.value = <<"(">> \/ token.value = <<"{">> THEN
        countArgsLoop(tokens, i + 1, depth + 1, argCount, hasContent)
      ELSE IF token.value = <<")">> \/ token.value = <<"}">> THEN
        IF depth - 1 = 0
        THEN (IF hasContent THEN argCount + 1 ELSE 0)
        ELSE countArgsLoop(tokens, i + 1, depth - 1, argCount, hasContent)
      ELSE IF token.value = <<",">> /\ depth = 1 THEN
        countArgsLoop(tokens, i + 1, depth, argCount + 1, hasContent)
      ELSE countArgsLoop(tokens, i + 1, depth, argCount, hasContent)
    ELSE IF depth = 1 /\ (token.type = "word" \/ token.type = "string") THEN
      countArgsLoop(tokens, i + 1, depth, argCount, TRUE)
    ELSE countArgsLoop(tokens, i + 1, depth, argCount, hasContent)

countArgs(tokens, startIndex) == countArgsLoop(tokens, startIndex, 0, 0, FALSE)

\* /\s$/.test(line)
endsWithSpace(line) == line # <<>> /\ IsWS(line[Len(line)])

ensureIndent(st) ==
  IF st.currentLine = <<>>
  THEN [st EXCEPT !.currentLine = repeat(INDENT_UNIT, st.indentLevel)]
  ELSE st

ensureSpaceBefore(st) ==
  IF st.currentLine = <<>> THEN ensureIndent(st)
  ELSE IF endsWithSpace(st.currentLine) \/ endsWith(st.currentLine, <<"(">>)
          \/ endsWith(st.currentLine, <<"{">>)
  THEN st
  ELSE [st EXCEPT !.currentLine = @ \o <<" ">>]

closeLine(st) ==
  [st EXCEPT !.lines = Append(@, trimEnd(st.currentLine)), !.currentLine = <<>>]

\* the punctuation branch of the token loop
formatPunct(tokens, st, token, index) ==
  IF token.value = <<"(">> \/ token.value = <<"{">> THEN
    LET shouldMultiline == countArgs(tokens, index) > 1
        s1 == [st EXCEPT !.multilineStack = Append(@, shouldMultiline),
                         !.currentLine = trimEnd(@)]
        s2 == ensureIndent(s1)
        s3 == [s2 EXCEPT !.currentLine = @ \o token.value]
    IN IF shouldMultiline
       THEN [closeLine(s3) EXCEPT !.indentLevel = @ + 1]
       ELSE s3
  ELSE IF token.value = <<")">> \/ token.value = <<"}">> THEN
    LET n == Len(st.multilineStack)
        wasMultiline == n > 0 /\ st.multilineStack[n]
        s1 == [st EXCEPT !.multilineStack = IF n > 0 THEN SubSeq(@, 1, n - 1) ELSE @]
    IN IF wasMultiline
       THEN LET s2 == IF trim(s1.currentLine) # <<>> THEN closeLine(s1) ELSE s1
                lvl == IF s2.indentLevel - 1 > 0 THEN s2.indentLevel - 1 ELSE 0
            IN [s2 EXCEPT !.indentLevel = lvl,
                          !.currentLine = repeat(INDENT_UNIT, lvl) \o token.value]
       ELSE [s1 EXCEPT !.currentLine = @ \o token.value]
  ELSE IF token.value = <<",">> \/ token.value = <<";">> THEN
    LET n == Len(st.multilineStack)
        isMultiline == n > 0 /\ st.multilineStack[n]
        s1 == ensureIndent([st EXCEPT !.currentLine = trimEnd(@)])
        s2 == [s1 EXCEPT !.currentLine = @ \o token.value]
    IN IF isMultiline THEN closeLine(s2)
       ELSE [s2 EXCEPT !.currentLine = @ \o <<" ">>]
  ELSE LET s1 == ensureIndent(st) IN [s1 EXCEPT !.currentLine = @ \o token.value]

\* the unary test of the operator branch
isUnary(token, lastToken) ==
  /\ token.value = <<"-">> \/ token.value = <<"+">>
  /\ \/ lastToken = NoToken
     \/ lastToken.type = "operator"
     \/ lastToken.type = "punct" /\ lastToken.value \in {<<"(">>, <<"{">>, <<",">>, <<";">>}

\* the operator branch of the token loop
formatOperator(st, token) ==
  LET atLineStart == st.lines = <<>> /\ trim(st.currentLine) = <<>> IN
  IF token.value = <<"=">> /\ atLineStart THEN
    LET s1 == ensureIndent(st) IN [s1 EXCEPT !.currentLine = @ \o <<"=">>]
  ELSE
    LET s1 == ensureIndent(st) IN
    IF isUnary(token, st.lastToken)
    THEN [s1 EXCEPT !.currentLine = @ \o token.value]
    ELSE LET s2 == ensureSpaceBefore(s1)
         IN [s2 EXCEPT !.currentLine = @ \o token.value \o <<" ">>]

\* the string/word branch of the token loop
formatWord(st, token) ==
  LET s1 == ensureIndent(st)
      cl == s1.currentLine
      sp == cl # <<>> /\ ~endsWithSpace(cl) /\ ~endsWith(cl, <<"(">>)
            /\ ~endsWith(cl, <<"{">>) /\ ~endsWith(cl, <<"=">>)
  IN [s1 EXCEPT !.currentLine = (IF sp THEN cl \o <<" ">> ELSE cl) \o token.value]

\* the body of the tokens.forEach callback of formatSingleFormula
formatToken(tokens, st, index) ==
  LET token == tokens[index] IN
  IF token.type = "punct"
  THEN [formatPunct(tokens, st, token, index) EXCEPT !.lastToken = token]
  ELSE IF token.type = "operator"
  THEN [formatOperator(st, token) EXCEPT !.lastToken = token]
  ELSE IF token.type = "string" \/ token.type = "word"
  THEN [formatWord(st, token) EXCEPT !.lastToken = token]
  ELSE st

RECURSIVE formatLoop(_, _, _)
formatLoop(tokens, index, st) ==
  IF index > Len(tokens) THEN st
  ELSE formatLoop(tokens, index + 1, formatToken(tokens, st, index))

formatSingleFormula(formula) ==
  LET tokens == tokenize(formula) IN
    IF tokens = <<>> THEN trim(formula)
    ELSE LET st == formatLoop(tokens, 1,
                     [indentLevel |-> 0, lines |-> <<>>, currentLine |-> <<>>,
                      lastToken |-> NoToken, multilineStack |-> <<>>])
             fin == IF trim(st.currentLine) # <<>> THEN closeLine(st) ELSE st
         IN join(fin.lines, <<"\n">>)

(***************************************************************************)
(* formatFormula and minifyFormula: the grouping of the lines into         *)
(* sections, blank-line markers and full-line comments.                    *)
(***************************************************************************)
COMMENT_MARK == <<"_", "_", "C", "O", "M", "M", "E", "N", "T", "_", "_">>

NullGroup == [null |-> TRUE, section |-> <<>>]

Section(ls) == [null |-> FALSE, section |-> ls]

\* the for loop over the lines: acc holds the locals groups and current
groupLine(acc, line) ==
  LET trimmed == trim(line)
      flushed == IF acc.current # <<>>
                 THEN Append(acc.groups, Section(acc.current)) ELSE acc.groups
  IN IF trimmed = <<>>
     THEN [groups |-> Append(flushed, NullGroup), current |-> <<>>]
     ELSE IF startsWith(trimmed, <<"/", "/">>)
     THEN [groups |-> Append(flushed, Section(<<COMMENT_MARK \o trimmed>>)),
           current |-> <<>>]
     ELSE [acc EXCEPT !.current = Append(@, trimmed)]

RECURSIVE groupLoop(_, _, _)
groupLoop(lines, k, acc) ==
  IF k > Len(lines) THEN acc
  ELSE groupLoop(lines, k + 1, groupLine(acc, lines[k]))

RECURSIVE popNulls(_)
popNulls(groups) ==
  IF groups # <<>> /\ groups[Len(groups)].null
  THEN popNulls(SubSeq(groups, 1, Len(groups) - 1))
  ELSE groups

groupLines(input) ==
  LET acc == groupLoop(splitLines(input), 1, [groups |-> <<>>, current |-> <<>>])
      all == IF acc.current # <<>>
             THEN Append(acc.groups, Section(acc.current)) ELSE acc.groups
  IN popNulls(all)

isCommentSection(g) ==
  Len(g.section) = 1 /\ startsWith(g.section[1], COMMENT_MARK)

commentText(g) == SubSeq(g.section[1], Len(COMMENT_MARK) + 1, Len(g.section[1]))

\* the groups.forEach callback of formatFormula
formatSection(out, g) ==
  IF g.null THEN
    IF out # <<>> /\ out[Len(out)] # <<>> THEN Append(out, <<>>) ELSE out
  ELSE IF isCommentSection(g) THEN Append(out, commentText(g))
  ELSE LET formatted == formatSingleFormula(join(g.section, <<" ">>)) IN
    IF formatted = <<>> THEN out ELSE out \o splitLines(formatted)

RECURSIVE formatSections(_, _, _)
formatSections(groups, k, out) ==
  IF k > Len(groups) THEN out
  ELSE formatSections(groups, k + 1, formatSection(out, groups[k]))

formatFormula(input) ==
  IF trim(input) = <<>> THEN input
  ELSE join(formatSections(groupLines(input), 1, <<>>), <<"\n">>)

\* the groups.forEach callback of minifyFormula
minifySection(out, g) ==
  IF g.null THEN
    IF out # <<>> /\ out[Len(out)] # <<>> THEN Append(out, <<>>) ELSE out
  ELSE IF isCommentSection(g) THEN Append(out, commentText(g))
  ELSE LET minified == minifySingleFormula(join(g.section, <<" ">>)) IN
    IF minified = <<>> THEN out ELSE Append(out, minified)

RECURSIVE minifySections(_, _, _)
minifySections(groups, k, out) ==
  IF k > Len(groups) THEN out
  ELSE minifySections(groups, k + 1, minifySection(out, groups[k]))

minifyFormula(input) ==
  IF trim(input) = <<>> THEN input
  ELSE join(minifySections(groupLines(input), 1, <<>>), <<"\n">>)

(***************************************************************************)
(* The comment stripper.                                                   *)
(***************************************************************************)
\* findCommentStart: the for loop at 1-based index i; the result is the
\* 0-based index of the source, -1 when no comment starts in the line
RECURSIVE findCommentStartLoop(_, _, _, _)
findCommentStartLoop(line, i, inString, stringChar) ==
  IF i > Len(line) THEN -1
  ELSE LET ch == line[i] IN
    IF inString THEN
      IF ch = stringChar THEN
        IF i + 1 <= Len(line) /\ line[i + 1] = stringChar
        THEN findCommentStartLoop(line, i + 2, TRUE, stringChar)
        ELSE findCommentStartLoop(line, i + 1, FALSE, stringChar)
      ELSE findCommentStartLoop(line, i + 1, TRUE, stringChar)
    ELSE IF ch = "\"" \/ ch = "'" THEN findCommentStartLoop(line, i + 1, TRUE, ch)
    ELSE IF ch = "/" /\ At(line, i + 1) = "/" THEN i - 1
    ELSE findCommentStartLoop(line, i + 1, FALSE, stringChar)

\* a comment scan that ignores string literals: the first // of the line
RECURSIVE firstSlashes(_, _)
firstSlashes(line, i) ==
  IF i > Len(line) THEN -1
  ELSE IF line[i] = "/" /\ At(line, i + 1) = "/" THEN i - 1
  ELSE firstSlashes(line, i + 1)

findCommentStart_NoStrings(line) == firstSlashes(line, 1)

findCommentStart(line) == findCommentStartLoop(line, 1, FALSE, "")

\* the body of the for loop of stripComments over the lines
stripLine(outputLines, line) ==
  IF startsWith(trim(line), <<"/", "/">>) THEN outputLines
  ELSE LET commentIndex == findCommentStart(line) IN
    IF commentIndex # -1 THEN
      LET withoutComment == trimEnd(SubSeq(line, 1, commentIndex)) IN
        IF withoutComment # <<>> THEN Append(outputLines, withoutComment)
        ELSE outputLines
    ELSE Append(outputLines, line)

RECURSIVE stripLoop(_, _, _)
stripLoop(lines, k, outputLines) ==
  IF k > Len(lines) THEN outputLines
  ELSE stripLoop(lines, k + 1, stripLine(outputLines, lines[k]))

RECURSIVE popBlankLines(_)
popBlankLines(outputLines) ==
  IF outputLines # <<>> /\ trim(outputLines[Len(outputLines)]) = <<>>
  THEN popBlankLines(SubSeq(outputLines, 1, Len(outputLines) - 1))
  ELSE outputLines

stripComments(input) ==
  IF trim(input) = <<>> THEN input
  ELSE join(popBlankLines(stripLoop(splitLines(input), 1, <<>>)), <<"\n">>)

(***************************************************************************)
(* Texts of the model: every text over a small alphabet up to a length,    *)
(* and some longer samples.                                                *)
(***************************************************************************)
MaxLen == 3

MaxCmds == 2

SeqsUpTo(A, n) == UNION {[1..k -> A] : k \in 0..n}

FmtAlphabet == {"a", "$", "/", " ", "\n", "(", ",", ")", "-", "\""}

FmtSamples ==
  { COMMENT_MARK \o <<" ", "a">>,
    COMMENT_MARK \o <<"a", " ", "/", "/", "c">>,
    <<"x", "\n">> \o COMMENT_MARK \o <<"f", "(", "a", ",", "b", ")">>,
    <<"$", "a", " ", "/", " ", "2">>,
    <<"a", " ", "/", "/", "c", "\n", "b">>,
    <<"a", " ", "/", " ", "/", " ", "b">>,
    <<"/", "/", " ", "c", "\n", "f", "(", "a", ",", "b", ")", " ", "/", "/", "d">>,
    <<"f", "(", "$", "a", ">", "1", ",", "g", "(", "b", ",", "c", ")", ")">> }

FmtTexts == SeqsUpTo(FmtAlphabet, MaxLen) \cup FmtSamples

(***************************************************************************)
(* Applying formatFormula and minifyFormula to a text, one after another.  *)
(***************************************************************************)
InitFmt ==
  /\ doc \in FmtTexts
  /\ orig = doc
  /\ prev = doc
  /\ cmds = <<>>
  /\ NotTextIdle

ApplyFormat ==
  /\ Len(cmds) < MaxCmds
  /\ doc' = formatFormula(doc)
  /\ prev' = doc
  /\ cmds' = Append(cmds, "format")
  /\ UNCHANGED <<orig, notText>>

ApplyMinify ==
  /\ Len(cmds) < MaxCmds
  /\ doc' = minifyFormula(doc)
  /\ prev' = doc
  /\ cmds' = Append(cmds, "minify")
  /\ UNCHANGED <<orig, notText>>

NextFmt == ApplyFormat \/ ApplyMinify

SpecFmt == InitFmt /\ [][NextFmt]_vars

\* the last two functions applied
LastTwo == IF Len(cmds) >= 2 THEN SubSeq(cmds, Len(cmds) - 1, Len(cmds)) ELSE <<>>

\* the tokens of a text that are not comments
RECURSIVE SelectType(_, _)
SelectType(tokens, types) ==
  IF tokens = <<>> THEN <<>>
  ELSE (IF tokens[1].type \in types THEN <<tokens[1]>> ELSE <<>>)
       \o SelectType(Tail(tokens), types)

CodeTokens(text) == SelectType(tokenize(text), {"word", "string", "operator", "punct"})

\* the comments of a text, each without its trailing white space
RECURSIVE TrimAll(_)
TrimAll(tokens) ==
  IF tokens = <<>> THEN <<>>
  ELSE <<trimEnd(tokens[1].value)>> \o TrimAll(Tail(tokens))

CommentsOf(text) == TrimAll(SelectType(tokenize(text), {"comment"}))

\* C1: formatting a formatted text changes nothing:
\* formatFormula(formatFormula(x)) = formatFormula(x) for every text x.
C1_FormatIdempotent ==
  LastTwo = <<"format", "format">> => doc = prev

\* C2: formatting the minified text gives a text with the same word, string,
\* operator and punctuation tokens as the original text.
C2_MinifyFormatKeepsTokens ==
  cmds = <<"minify", "format">> => CodeTokens(doc) = CodeTokens(orig)

\* C3: minifying the formatted text and minifying the original text give the
\* same token sequence.
C3_MinifyAfterFormat ==
  cmds = <<"format", "minify">> => tokenize(doc) = tokenize(minifyFormula(orig))

\* C4: formatFormula and minifyFormula keep every comment of their input, the
\* full-line ones and the trailing ones, with its text unchanged.
C4_CommentsKept ==
  Len(cmds) = 1 => CommentsOf(doc) = CommentsOf(orig)

(***************************************************************************)
(* Applying stripComments to a text.                                       *)
(***************************************************************************)
MaxStripLen == 5

StripAlphabet == {"a", "/", "\"", "'", " ", "\n"}

StripSamples ==
  { <<"\"", "/", "/", "\"", "/", "/", "c">>,
    <<"\"", "a", "\"", "\"", "/", "/", "\"", " ", "/", "/", " ", "c">>,
    <<"'", "/", "/", "'", "'", "'", " ", "a", " ", "/", "/", "'", "\n", "/", "/", "c",
      "\n", "\"", "/", "/">>,
    <<"x", " ", "/", "/", " ", "\"", "s", "\"", "\n", " ", "/", "/", "c", "\n", "y">> }

StripTexts == SeqsUpTo(StripAlphabet, MaxStripLen) \cup StripSamples

InitStrip ==
  /\ doc \in StripTexts
  /\ orig = doc
  /\ prev = doc
  /\ cmds = <<>>
  /\ NotTextIdle

ApplyStrip ==
  /\ Len(cmds) < MaxCmds
  /\ doc' = stripComments(doc)
  /\ prev' = doc
  /\ cmds' = Append(cmds, "strip")
  /\ UNCHANGED <<orig, notText>>

NextStrip == ApplyStrip

SpecStrip == InitStrip /\ [][NextStrip]_vars

\* the tokens of every line of a text, each line tokenized on its own
RECURSIVE TokensPerLine(_, _)
TokensPerLine(lines, types) ==
  IF lines = <<>> THEN <<>>
  ELSE SelectType(tokenize(lines[1]), types) \o TokensPerLine(Tail(lines), types)

CodeTokensPerLine(text) ==
  TokensPerLine(splitLines(text), {"word", "string", "operator", "punct"})

CommentsPerLine(text) == TokensPerLine(splitLines(text), {"comment"})

HasSlashes(value) ==
  \E i \in 1..(Len(value) - 1) : value[i] = "/" /\ value[i + 1] = "/"

\* C5: the output of stripComments holds no comment (no line of it has a //
\* outside a string literal), and it holds the tokens of the input that are
\* not comments, unchanged and in order: every string literal, also one with
\* a // or a doubled delimiter inside, is kept character for character.
C5_StripRemovesOnlyComments ==
  cmds = <<"strip">> =>
    /\ CommentsPerLine(doc) = <<>>
    /\ CodeTokensPerLine(doc) = CodeTokensPerLine(prev)

\* C5 witness: a comment was removed from a text with a // inside a string
C5_Witness ==
  /\ cmds = <<"strip">>
  /\ CommentsPerLine(prev) # <<>>
  /\ \E k \in 1..Len(CodeTokensPerLine(doc)) :
       /\ CodeTokensPerLine(doc)[k].type = "string"
       /\ HasSlashes(CodeTokensPerLine(doc)[k].value)

(***************************************************************************)
(* Custom-function expansion (custom-functions/index.js).                  *)
(***************************************************************************)
CustomFunc(name, params, expansion) ==
  [name |-> name, params |-> params, expansion |-> expansion]

\* custom-functions/bmi.js
BMI ==
  CustomFunc(
    <<"B", "M", "I">>,
    << <<"w", "e", "i", "g", "h", "t", "_", "k", "g">>,
       <<"h", "e", "i", "g", "h", "t", "_", "c", "m">> >>,
    <<"R", "O", "U", "N", "D", "(", "{", "w", "e", "i", "g", "h", "t", "_",
      "k", "g", "}", " ", "/", " ", "(", "(", "{", "h", "e", "i", "g", "h",
      "t", "_", "c", "m", "}", " ", "/", " ", "1", "0", "0", ")", " ", "*",
      " ", "(", "{", "h", "e", "i", "g", "h", "t", "_", "c", "m", "}", " ",
      "/", " ", "1", "0", "0", ")", ")", ",", " ", "1", ")">>)

LOWER ==
  <<"a", "b", "c", "d", "e", "f", "g", "h", "i", "j", "k", "l", "m",
    "n", "o", "p", "q", "r", "s", "t", "u", "v", "w", "x", "y", "z">>

UPPER ==
  <<"A", "B", "C", "D", "E", "F", "G", "H", "I", "J", "K", "L", "M",
    "N", "O", "P", "Q", "R", "S", "T", "U", "V", "W", "X", "Y", "Z">>

\* the case folding of the regular expression flag i and of toUpperCase
upper(c) ==
  IF \E k \in 1..Len(LOWER) : LOWER[k] = c
  THEN UPPER[CHOOSE k \in 1..Len(LOWER) : LOWER[k] = c]
  ELSE c

DIGITS == <<"0", "1", "2", "3", "4", "5", "6", "7", "8", "9">>

\* \d of a regular expression
IsDigit(c) == c \in {"0", "1", "2", "3", "4", "5", "6", "7", "8", "9"}

\* [A-Z] of a regular expression with the flag i
LETTERS == {LOWER[k] : k \in 1..Len(LOWER)} \cup {UPPER[k] : k \in 1..Len(UPPER)}

IsLetter(c) == c \in LETTERS

\* \w of a regular expression
IsWordChar(c) == IsLetter(c) \/ IsDigit(c) \/ c = "_"

Min(S) == CHOOSE x \in S : \A y \in S : x <= y

\* the regular expression \bNAME\s*\( tried at the 0-based index i of the
\* text: the 0-based index of the parenthesis that ends the match, -1 when
\* there is no match at i
callAt(text, name, i) ==
  LET n    == Len(name)
      rest == {j \in (i + n + 1)..Len(text) : ~IsWS(text[j])}
  IN  IF /\ i + n <= Len(text)
         /\ \A k \in 1..n : upper(text[i + k]) = upper(name[k])
         /\ (i = 0 \/ ~IsWordChar(text[i]))
         /\ rest # {}
         /\ text[Min(rest)] = "("
      THEN Min(rest) - 1
      ELSE -1

\* the 0-based start indices of the matches regex.exec finds one after another
matches(text, name) == {i \in 0..(Len(text) - 1) : callAt(text, name, i) # -1}

\* one turn of the for loop of findMatchingParen, at the 0-based index i
parenStep(text, i, st) ==
  LET char     == text[i + 1]
      prevChar == IF i > 0 THEN text[i] ELSE ""
  IN  IF st.result # -1 THEN st
      ELSE IF char \in {"\"", "'"} /\ prevChar # "\\" THEN
        IF ~st.inString THEN [st EXCEPT !.inString = TRUE, !.stringChar = char]
        ELSE IF char = st.stringChar THEN [st EXCEPT !.inString = FALSE]
        ELSE st
      ELSE IF st.inString THEN st
      ELSE IF char = "(" THEN [st EXCEPT !.depth = st.depth + 1]
      ELSE IF char = ")" THEN
        IF st.depth - 1 = 0 THEN [st EXCEPT !.depth = 0, !.result = i]
        ELSE [st EXCEPT !.depth = st.depth - 1]
      ELSE st

\* the turns lo..hi of that loop in order; the range is split in halves and
\* the first half is computed before the second is entered, which keeps the
\* evaluation shallow on long texts
RECURSIVE parenLoop(_, _, _, _)
parenLoop(text, lo, hi, st) ==
  IF lo > hi THEN st
  ELSE IF lo = hi THEN parenStep(text, lo, st)
  ELSE LET mid  == (lo + hi) \div 2
           left == parenLoop(text, lo, mid, st)
       IN  IF left.result # -1 THEN left
           ELSE parenLoop(text, mid + 1, hi, left)

\* 0-based index of the closing parenthesis, -1 when there is none
findMatchingParen(text, openIndex) ==
  parenLoop(text, openIndex + 1, Len(text) - 1,
            [depth |-> 1, inString |-> FALSE, stringChar |-> "", result |-> -1]).result

\* one turn of the for loop of parseArguments, at the 0-based index i
argStep(trimmed, i, st) ==
  LET char     == trimmed[i + 1]
      prevChar == IF i > 0 THEN trimmed[i] ELSE ""
      kept     == [st EXCEPT !.currentArg = Append(st.currentArg, char)]
  IN  IF char \in {"\"", "'"} /\ prevChar # "\\" THEN
        IF ~st.inString THEN [kept EXCEPT !.inString = TRUE, !.stringChar = char]
        ELSE IF char = st.stringChar THEN [kept EXCEPT !.inString = FALSE]
        ELSE kept
      ELSE IF st.inString THEN kept
      ELSE IF char = "(" THEN [kept EXCEPT !.depth = st.depth + 1]
      ELSE IF char = ")" THEN [kept EXCEPT !.depth = st.depth - 1]
      ELSE IF char = "," /\ st.depth = 0 THEN
        [st EXCEPT !.args = Append(st.args, st.currentArg), !.currentArg = <<>>]
      ELSE kept

\* the turns lo..hi of that loop in order, the first half before the second
RECURSIVE argLoop(_, _, _, _)
argLoop(trimmed, lo, hi, st) ==
  IF lo > hi THEN st
  ELSE IF lo = hi THEN argStep(trimmed, lo, st)
  ELSE LET mid  == (lo + hi) \div 2
           left == argLoop(trimmed, lo, mid, st)
       IN  IF left.depth \in Int THEN argLoop(trimmed, mid + 1, hi, left)
           ELSE left

parseArguments(argsString) ==
  LET trimmed == trim(argsString)
      st == argLoop(trimmed, 0, Len(trimmed) - 1,
                    [args |-> <<>>, depth |-> 0, inString |-> FALSE,
                     stringChar |-> "", currentArg |-> <<>>])
  IN  IF trimmed = <<>> THEN <<>>
      ELSE IF st.currentArg # <<>> THEN Append(st.args, st.currentArg)
      ELSE st.args

\* text.replace(new RegExp(pattern, 'g'), value), for a pattern of plain
\* characters and a value without $
RECURSIVE replaceAll(_, _, _)
replaceAll(text, pattern, value) ==
  LET hits == {i \in 1..(Len(text) - Len(pattern) + 1) :
                 SubSeq(text, i, i + Len(pattern) - 1) = pattern}
  IN  IF hits = {} THEN text
      ELSE LET i == Min(hits)
           IN  SubSeq(text, 1, i - 1) \o value
                 \o replaceAll(SubSeq(text, i + Len(pattern), Len(text)), pattern, value)

\* the for loop over customFunc.params, from the 1-based position i on
RECURSIVE substituteParams(_, _, _, _)
substituteParams(expansion, params, args, i) ==
  IF i > Len(params) THEN expansion
  ELSE LET argValue == IF i <= Len(args) THEN trim(args[i]) ELSE <<>>
       IN  substituteParams(
             replaceAll(expansion, <<"{">> \o params[i] \o <<"}">>, argValue),
             params, args, i + 1)

\* the arguments of the match of customFunc at the 0-based index startIndex
callArgs(text, customFunc, startIndex) ==
  LET openParenIndex  == callAt(text, customFunc.name, startIndex)
      closeParenIndex == findMatchingParen(text, openParenIndex)
  IN  parseArguments(SubSeq(text, openParenIndex + 2, closeParenIndex))

\* the match is neither skipped for an unclosed parenthesis nor for its
\* number of arguments
isExpandable(text, customFunc, startIndex) ==
  /\ findMatchingParen(text, callAt(text, customFunc.name, startIndex)) # -1
  /\ Len(callArgs(text, customFunc, startIndex)) >= 1
  /\ Len(callArgs(text, customFunc, startIndex)) <= Len(customFunc.params)

\* the text with the call at startIndex replaced by its expansion
replaceCall(text, customFunc, startIndex) ==
  LET openParenIndex  == callAt(text, customFunc.name, startIndex)
      closeParenIndex == findMatchingParen(text, openParenIndex)
      expansion == substituteParams(customFunc.expansion, customFunc.params,
                                    callArgs(text, customFunc, startIndex), 1)
  IN  SubSeq(text, 1, startIndex) \o <<"(">> \o expansion \o <<")">>
        \o SubSeq(text, closeParenIndex + 2, Len(text))

\* the matches of customFunc the inner while loop does not skip
expandableCalls(text, customFunc) ==
  {i \in matches(text, customFunc.name) : isExpandable(text, customFunc, i)}

hasCustomFunctions(text) ==
  \E k \in 1..Len(CUSTOM_FUNCTIONS) : matches(text, CUSTOM_FUNCTIONS[k].name) # {}

\* if (changed) break, at the end of the body of the for loop
breakNever(c) == FALSE

breakIfChanged(c) == c

maxIterations == 10

(***************************************************************************)
(* Registries and formulas of the model.  CUSTOM_FUNCTIONS is loaded once  *)
(* from the definition files: the shipped BMI, and two registries whose    *)
(* templates call custom functions (F calls G; F calls itself).  The       *)
(* shipped TEXTJOIN is left out: no formula of the model names it.         *)
(***************************************************************************)
MaxExpandLen == 4

MaxSites == 11

RealRegistry == <<BMI>>

ChainRegistry ==
  << CustomFunc(<<"F">>, << <<"x">> >>,
                <<"G", "(", "{", "x", "}", ",", " ", "1", ")">>),
     CustomFunc(<<"G">>, << <<"x">>, <<"y">> >>,
                <<"{", "x", "}", " ", "-", " ", "{", "y", "}">>) >>

SelfRegistry ==
  << CustomFunc(<<"F">>, << <<"x">> >>,
                <<"1", " ", "+", " ", "F", "(", "{", "x", "}", ")">>) >>

ExpandAlphabet == {"F", "G", "(", ")", ",", "1", " ", "\""}

\* k calls joined by +
RECURSIVE Sites(_, _)
Sites(call, k) ==
  IF k <= 1 THEN call ELSE call \o <<"+">> \o Sites(call, k - 1)

BmiCall == <<"B", "M", "I", "(", "1", ",", "2", ")">>

BmiSamples ==
  { Sites(BmiCall, k) : k \in 1..MaxSites } \cup
  { <<"b", "m", "i", " ", "(", "1", ",", " ", "2", ")">>,
    <<"B", "M", "I", "(">> \o BmiCall \o <<",", "3", ")">>,
    <<"B", "M", "I", "(", "1", ")">>,
    <<"B", "M", "I", "(", ")">>,
    <<"B", "M", "I", "(", "1", ",", "2", ",", "3", ")">>,
    <<"B", "M", "I", "(", "\"", ")", ",", "\"", ",", "2", ")">>,
    <<"B", "M", "I", "(", "1", ",", "2">>,
    <<"\"", "B", "M", "I", "(", "1", ",", "2", ")", "\"">> }

ChainSamples ==
  { <<"f", "(", "1", ")">>,
    <<"F", "(", "\"", "\\", "\"", ")">>,
    <<"F", "(", "F", "(", "F", "(", "1", ")", ")", ")">>,
    <<"F", "(", "1", ")", "G", "(", "1", ",", "1", ")">>,
    <<"G", "(", "F", "(", "1", ")", ",", "F", "(", "1", ")", ")">>,
    <<"G", "(", "{", "y", "}", ",", " ", "1", ")">>,
    <<"1", "+", "G", "(", " ", "1", " ", ")", "+", "1">> }

ExpandInputs ==
  ({RealRegistry} \X BmiSamples) \cup
  ({ChainRegistry, SelfRegistry} \X
     (SeqsUpTo(ExpandAlphabet, MaxExpandLen) \cup ChainSamples))

(***************************************************************************)
(* expandCustomFunctions, one action per step of its loops.                *)
(***************************************************************************)
InitExpand ==
  /\ \E p \in ExpandInputs : CUSTOM_FUNCTIONS = p[1] /\ formulaArg = p[2]
  /\ expanded = <<>>
  /\ iteration = 0
  /\ changed = FALSE
  /\ funcIndex = 0
  /\ rewrites = 0
  /\ pc = "entry"
  /\ NotExpandIdle

\* the early return for an empty formula, and the declarations
Enter ==
  /\ pc = "entry"
  /\ expanded' = formulaArg
  /\ IF formulaArg = <<>>
     THEN pc' = "return" /\ UNCHANGED changed
     ELSE pc' = "while" /\ changed' = TRUE
  /\ UNCHANGED <<CUSTOM_FUNCTIONS, formulaArg, iteration, funcIndex, rewrites, notExpand>>

\* the test of the while loop holds
EnterIteration ==
  /\ pc = "while"
  /\ changed /\ iteration < maxIterations
  /\ changed' = FALSE
  /\ iteration' = iteration + 1
  /\ funcIndex' = 1
  /\ rewrites' = 0
  /\ pc' = "for"
  /\ UNCHANGED <<CUSTOM_FUNCTIONS, formulaArg, expanded, notExpand>>

\* the test of the while loop fails: return expanded
ExitLoop ==
  /\ pc = "while"
  /\ ~(changed /\ iteration < maxIterations)
  /\ pc' = "return"
  /\ UNCHANGED <<CUSTOM_FUNCTIONS, formulaArg, expanded, iteration, changed,
                 funcIndex, rewrites, notExpand>>

\* the body of the for loop for one custom function: its first call that is
\* not skipped is replaced
ScanFunction ==
  /\ pc = "for"
  /\ funcIndex <= Len(CUSTOM_FUNCTIONS)
  /\ LET customFunc == CUSTOM_FUNCTIONS[funcIndex]
         calls      == expandableCalls(expanded, customFunc)
     IN  IF calls # {}
         THEN /\ expanded' = replaceCall(expanded, customFunc, Min(calls))
              /\ changed' = TRUE
              /\ rewrites' = rewrites + 1
         ELSE UNCHANGED <<expanded, changed, rewrites>>
  /\ IF breakIfChanged(changed')
     THEN pc' = "while" /\ UNCHANGED funcIndex
     ELSE pc' = "for" /\ funcIndex' = funcIndex + 1
  /\ UNCHANGED <<CUSTOM_FUNCTIONS, formulaArg, iteration, notExpand>>

\* the for loop has gone through every custom function
EndFor ==
  /\ pc = "for"
  /\ funcIndex > Len(CUSTOM_FUNCTIONS)
  /\ pc' = "while"
  /\ UNCHANGED <<CUSTOM_FUNCTIONS, formulaArg, expanded, iteration, changed,
                 funcIndex, rewrites, notExpand>>

NextExpand == Enter \/ EnterIteration \/ ExitLoop \/ ScanFunction \/ EndFor

SpecExpand == InitExpand /\ [][NextExpand]_vars

\* an upper bound on the steps expandCustomFunctions still takes: every
\* iteration of the while loop is one test, at most one turn of the for loop
\* for each custom function, and the end of the for loop
stepsLeft ==
  LET perIteration == Len(CUSTOM_FUNCTIONS) + 2
      atWhile      == (maxIterations - iteration) * perIteration + 1
  IN  CASE pc = "entry" -> maxIterations * perIteration + 2
        [] pc = "while" -> atWhile
        [] pc = "for"   -> atWhile + (Len(CUSTOM_FUNCTIONS) + 1 - funcIndex) + 1
        [] OTHER        -> 0

\* the templates of the registry call each other in a cycle
callsInTemplate(reg) ==
  {e \in (1..Len(reg)) \X (1..Len(reg)) : matches(reg[e[1]].expansion, reg[e[2]].name) # {}}

isCyclic(reg) ==
  \E p \in SeqsUpTo(1..Len(reg), Len(reg)) :
    /\ p # <<>>
    /\ \A k \in 1..(Len(p) - 1) : <<p[k], p[k + 1]>> \in callsInTemplate(reg)
    /\ <<p[Len(p)], p[1]>> \in callsInTemplate(reg)

\* every call of a registered function in the text has a closed parenthesis
\* and an accepted number of arguments
allCallsAccepted(text) ==
  \A k \in 1..Len(CUSTOM_FUNCTIONS) :
    \A i \in matches(text, CUSTOM_FUNCTIONS[k].name) :
      isExpandable(text, CUSTOM_FUNCTIONS[k], i)

\* C6: when every call of a registered custom function in the input has a
\* closed parenthesis and an accepted argument count and the templates are
\* not cyclic, the returned text holds no call NAME( of a registered custom
\* function, whatever the number of call sites.
C6_NoCallRemains ==
  (pc = "return" /\ ~isCyclic(CUSTOM_FUNCTIONS) /\ allCallsAccepted(formulaArg))
    => ~hasCustomFunctions(expanded)

\* C7: expandCustomFunctions terminates on every text and registry, a
\* self-calling template included: at most 10 iterations of the outer loop,
\* at most one call site replaced in an iteration, the loop is left as soon
\* as an iteration has replaced nothing, and every step of the function
\* lowers a bound on the steps that remain, which never falls below zero.
C7_Terminates ==
  /\ [](iteration <= 10 /\ rewrites <= 1 /\ stepsLeft >= 0)
  /\ [][(pc = "while" /\ ~changed) => pc' = "return"]_vars
  /\ [][stepsLeft' < stepsLeft]_vars

\* the cap ends the expansion of a self-calling template
C7_Witness ==
  /\ pc = "return"
  /\ CUSTOM_FUNCTIONS = SelfRegistry
  /\ iteration = 10
  /\ changed

(***************************************************************************)
(* Call validation (lib/validation.js, lib/function-parsing.js and         *)
(* lib/type-system.js) over the function catalog.                          *)
(***************************************************************************)
\* the JavaScript values null and undefined
JsNull == "JsNull"

Param(type, optional) == [type |-> type, optional |-> optional]

\* maxArgs: '*'
STAR == -1

FuncInfo(name, minArgs, maxArgs, returns, params) ==
  [name |-> name, minArgs |-> minArgs, maxArgs |-> maxArgs, returns |-> returns,
   params |-> params]

\* the entries of the catalog the texts of the model name
FUNCTION_ITEMS ==
  << FuncInfo(<<"D", "U", "R", "A", "T", "I", "O", "N", "_", "A", "D", "D">>, 2, 2,
      "iso8601_datetime",
              <<Param("iso8601_datetime", FALSE), Param("iso8601_duration", FALSE)>>),
     FuncInfo(<<"N", "O", "W">>, 0, 0, "datetime", <<>>),
     FuncInfo(<<"D", "A", "T", "E", "V", "A", "L", "U", "E">>, 1, 1, "ticks",
         <<Param("iso8601_datetime", FALSE)>>),
     FuncInfo(<<"I", "S", "N", "U", "L", "L">>, 1, 1, "boolean", <<Param("any", FALSE)>>),
     FuncInfo(<<"L", "E", "N">>, 1, 1, "integer", <<Param("text", FALSE)>>),
     FuncInfo(<<"S", "U", "M">>, 1, STAR, "number",
              <<Param("number", FALSE), Param("number", TRUE)>>),
     FuncInfo(<<"N", "O", "T">>, 1, 1, "boolean", <<Param("boolean", FALSE)>>),
     FuncInfo(<<"I", "F">>, 2, 3, "any",
              <<Param("boolean", FALSE), Param("any", FALSE), Param("any", TRUE)>>) >>

\* FUNCTION_LOOKUP.get(funcName): the entries of that name, none or one
FUNCTION_LOOKUP(funcName) ==
  SelectSeq(FUNCTION_ITEMS, LAMBDA item : item.name = funcName)

TYPE_COMPATIBILITY ==
  [expectedType \in
     {"number", "integer", "text", "boolean", "ticks", "datetime", "iso8601_datetime",
      "iso8601_date", "iso8601_time", "iso8601_duration", "any", "null"} |->
   CASE expectedType = "number"   -> {"number", "integer", "any"}
     [] expectedType = "integer"  -> {"integer", "number", "any"}
     [] expectedType = "text"     ->
          {"text", "number", "iso8601_datetime", "iso8601_date", "iso8601_time",
           "iso8601_duration", "any"}
     [] expectedType = "boolean"  -> {"boolean", "any"}
     [] expectedType = "ticks"    -> {"ticks", "number", "integer", "any"}
     [] expectedType = "datetime" -> {"datetime", "any"}
     [] expectedType = "iso8601_datetime" -> {"iso8601_datetime", "text", "any"}
     [] expectedType = "iso8601_date"     -> {"iso8601_date", "text", "any"}
     [] expectedType = "iso8601_time"     -> {"iso8601_time", "text", "any"}
     [] expectedType = "iso8601_duration" -> {"iso8601_duration", "text", "any"}
     [] expectedType = "any"      ->
          {"any", "number", "integer", "text", "boolean", "ticks", "datetime",
           "iso8601_datetime", "iso8601_date", "iso8601_time", "iso8601_duration",
           "null"}
     [] expectedType = "null"     -> {"null", "any"}]

RM_TYPE_MAPPING(rmType) ==
  CASE rmType = "DV_DATE_TIME"  -> "iso8601_datetime"
    [] rmType = "DV_DATE"       -> "iso8601_date"
    [] rmType = "DV_TIME"       -> "iso8601_time"
    [] rmType = "DV_DURATION"   -> "iso8601_duration"
    [] rmType = "DV_QUANTITY"   -> "number"
    [] rmType = "DV_COUNT"      -> "integer"
    [] rmType = "DV_PROPORTION" -> "number"
    [] rmType = "DV_ORDINAL"    -> "integer"
    [] rmType = "DV_BOOLEAN"    -> "boolean"
    [] rmType = "DV_TEXT"       -> "text"
    [] rmType = "DV_CODED_TEXT" -> "text"
    [] rmType = "DV_IDENTIFIER" -> "text"
    [] rmType = "DV_URI"        -> "text"
    [] OTHER                    -> JsNull

isTypeCompatible_NullIsUnknown(givenType, expectedType) ==
  IF givenType \in {JsNull, "null"} \/ expectedType \in {JsNull, "null"} THEN TRUE
  ELSE IF givenType = expectedType THEN TRUE
  ELSE IF expectedType = "any" THEN TRUE
  ELSE IF givenType = "any" THEN TRUE
  ELSE IF expectedType \in DOMAIN TYPE_COMPATIBILITY
       THEN givenType \in TYPE_COMPATIBILITY[expectedType]
  ELSE FALSE

isTypeCompatible_BothWays(givenType, expectedType) ==
  IF givenType = JsNull \/ expectedType = JsNull THEN TRUE
  ELSE IF givenType = expectedType THEN TRUE
  ELSE IF expectedType = "any" THEN TRUE
  ELSE IF givenType = "any" THEN TRUE
  ELSE IF expectedType \in DOMAIN TYPE_COMPATIBILITY
       THEN \/ givenType \in TYPE_COMPATIBILITY[expectedType]
            \/ expectedType \in TYPE_COMPATIBILITY[givenType]
  ELSE FALSE

isTypeCompatible(givenType, expectedType) ==
  IF givenType = JsNull \/ expectedType = JsNull THEN TRUE
  ELSE IF givenType = expectedType THEN TRUE
  ELSE IF expectedType = "any" THEN TRUE
  ELSE IF givenType = "any" THEN TRUE
  ELSE IF expectedType \in DOMAIN TYPE_COMPATIBILITY
       THEN givenType \in TYPE_COMPATIBILITY[expectedType]
  ELSE FALSE

\* variables?.get(varName)?.rmType, the table being a sequence of entries
rmTypeOf(variables, varName) ==
  LET found == SelectSeq(variables, LAMBDA v : v.name = varName)
  IN  IF found = <<>> THEN JsNull ELSE found[1].rmType

(***************************************************************************)
(* Characters and the regular expressions of the validator.                *)
(***************************************************************************)
toUpperCase(s) == [k \in 1..Len(s) |-> upper(s[k])]

RECURSIVE parseInt(_)
parseInt(s) ==
  IF s = <<>> THEN 0
  ELSE 10 * parseInt(SubSeq(s, 1, Len(s) - 1))
         + (CHOOSE k \in 1..Len(DIGITS) : DIGITS[k] = s[Len(s)]) - 1

\* \d{n} at the 1-based position p
allDigits(s, p, n) == p + n - 1 <= Len(s) /\ \A k \in p..(p + n - 1) : IsDigit(s[k])

\* the 1-based position after the digits \d* matches from p on
digitsEnd(s, p) == Min({j \in p..Len(s) : ~IsDigit(s[j])} \cup {Len(s) + 1})

\* \d{4}-\d{2}-\d{2} at p
ymdAt(s, p) ==
  /\ allDigits(s, p, 4) /\ At(s, p + 4) = "-"
  /\ allDigits(s, p + 5, 2) /\ At(s, p + 7) = "-"
  /\ allDigits(s, p + 8, 2)

\* \d{2}:\d{2} at p
hmAt(s, p) == allDigits(s, p, 2) /\ At(s, p + 2) = ":" /\ allDigits(s, p + 3, 2)

\* \d{2}:\d{2}:\d{2} at p
hmsAt(s, p) == hmAt(s, p) /\ At(s, p + 5) = ":" /\ allDigits(s, p + 6, 2)

\* (Z|[+-]\d{2}:\d{2})?$
zonePattern(z) ==
  \/ z = <<>>
  \/ z = <<"Z">>
  \/ Len(z) = 6 /\ z[1] \in {"+", "-"} /\ hmAt(z, 2)

\* (\.\d{1,3})?(Z|[+-]\d{2}:\d{2})?$
fractionAndZone(r) ==
  \/ zonePattern(r)
  \/ \E n \in 1..3 :
       At(r, 1) = "." /\ allDigits(r, 2, n) /\ zonePattern(SubSeq(r, n + 2, Len(r)))

datetimePattern(content) ==
  /\ ymdAt(content, 1)
  /\ At(content, 11) = "T"
  /\ hmsAt(content, 12)
  /\ fractionAndZone(SubSeq(content, 20, Len(content)))

datePattern(content) == Len(content) = 10 /\ ymdAt(content, 1)

timePattern(content) ==
  hmsAt(content, 1) /\ fractionAndZone(SubSeq(content, 9, Len(content)))

\* the components of a duration from the 1-based position p on: a number,
\* with a fraction when decimals, and one of the designators still allowed,
\* in their order; T opens the time part once.  The result tells whether the
\* text is matched to its end and how many components were matched.
RECURSIVE durationRest(_, _, _, _, _, _)
durationRest(s, p, designators, inTime, decimals, n) ==
  LET e    == digitsEnd(s, p)
      f    == IF decimals /\ e > p /\ At(s, e) = "." /\ digitsEnd(s, e + 1) > e + 1
              THEN digitsEnd(s, e + 1) ELSE e
      hits == {k \in 1..Len(designators) : designators[k] = At(s, f)}
  IN  IF p > Len(s) THEN [matched |-> TRUE, components |-> n]
      ELSE IF s[p] = "T" /\ ~inTime
        THEN durationRest(s, p + 1, <<"H", "M", "S">>, TRUE, decimals, n)
      ELSE IF f > p /\ hits # {}
        THEN durationRest(s, f + 1,
                          SubSeq(designators, Min(hits) + 1, Len(designators)),
                          inTime, decimals, n + 1)
      ELSE [matched |-> FALSE, components |-> n]

\* /^P(?:(\d+(?:\.\d+)?Y)?(...M)?(...W)?(...D)?)?(?:T(?:(...H)?(...M)?(...S)?)?)?$/
durationPattern(content) ==
  IF At(content, 1) = "P"
  THEN durationRest(content, 2, <<"Y", "M", "W", "D">>, FALSE, TRUE, 0)
  ELSE [matched |-> FALSE, components |-> 0]

\* /\d{4}-\d{2}/.test(content)
looksLikeDate(content) ==
  \E p \in 1..Len(content) :
    allDigits(content, p, 4) /\ At(content, p + 4) = "-" /\ allDigits(content, p + 5, 2)

\* /\d{2}:\d{2}/.test(content)
looksLikeTime(content) == \E p \in 1..Len(content) : hmAt(content, p)

\* content.startsWith('P') || /P\d+[YMWDTHS]/.test(content)
looksLikeDuration(content) ==
  \/ startsWith(content, <<"P">>)
  \/ \E p \in 1..Len(content) :
       /\ content[p] = "P"
       /\ digitsEnd(content, p + 1) > p + 1
       /\ At(content, digitsEnd(content, p + 1)) \in {"Y", "M", "W", "D", "T", "H", "S"}

\* m < 1 || m > 12
invalidMonth_UpTo13(m) == m < 1 \/ m > 13

invalidMonth(m) == m < 1 \/ m > 12

validateISO8601String(str) ==
  LET trimmed == trim(str)
      content == SubSeq(trimmed, 2, Len(trimmed) - 1)
      m   == parseInt(SubSeq(content, 6, 7))
      d   == parseInt(SubSeq(content, 9, 10))
      h   == parseInt(SubSeq(content, 12, 13))
      min == parseInt(SubSeq(content, 15, 16))
      s   == parseInt(SubSeq(content, 18, 19))
      th   == parseInt(SubSeq(content, 1, 2))
      tmin == parseInt(SubSeq(content, 4, 5))
      ts   == parseInt(SubSeq(content, 7, 8))
      durationMatch == durationPattern(content)
      Result(valid, type) == [valid |-> valid, type |-> type]
  IN  IF ~startsWith(trimmed, <<"\"">>) /\ ~startsWith(trimmed, <<"'">>)
        THEN Result(TRUE, JsNull)
      ELSE IF datetimePattern(content) THEN
        IF invalidMonth(m) THEN Result(FALSE, "iso8601_datetime")
        ELSE IF d < 1 \/ d > 31 THEN Result(FALSE, "iso8601_datetime")
        ELSE IF h > 23 THEN Result(FALSE, "iso8601_datetime")
        ELSE IF min > 59 THEN Result(FALSE, "iso8601_datetime")
        ELSE IF s > 59 THEN Result(FALSE, "iso8601_datetime")
        ELSE Result(TRUE, "iso8601_datetime")
      ELSE IF datePattern(content) THEN
        IF invalidMonth(m) THEN Result(FALSE, "iso8601_date")
        ELSE IF d < 1 \/ d > 31 THEN Result(FALSE, "iso8601_date")
        ELSE Result(TRUE, "iso8601_date")
      ELSE IF timePattern(content) THEN
        IF th > 23 THEN Result(FALSE, "iso8601_time")
        ELSE IF tmin > 59 THEN Result(FALSE, "iso8601_time")
        ELSE IF ts > 59 THEN Result(FALSE, "iso8601_time")
        ELSE Result(TRUE, "iso8601_time")
      ELSE IF durationMatch.matched /\ startsWith(content, <<"P">>) THEN
        IF durationMatch.components = 0 THEN Result(FALSE, "iso8601_duration")
        ELSE Result(TRUE, "iso8601_duration")
      ELSE IF looksLikeDate(content) THEN Result(FALSE, "unknown")
      ELSE IF looksLikeTime(content) THEN Result(FALSE, "unknown")
      ELSE IF looksLikeDuration(content) THEN Result(FALSE, "unknown")
      ELSE Result(TRUE, JsNull)

(***************************************************************************)
(* lib/function-parsing.js                                                 *)
(***************************************************************************)
\* the turns lo..hi of the for loop of countFunctionArguments, at 0-based
\* indices, the first half before the second
RECURSIVE countLoop(_, _, _, _)
countLoop(trimmed, lo, hi, st) ==
  LET char     == trimmed[lo + 1]
      prevChar == IF lo > 0 THEN trimmed[lo] ELSE ""
      mid      == (lo + hi) \div 2
      left     == countLoop(trimmed, lo, mid, st)
  IN  IF lo > hi THEN st
      ELSE IF lo < hi THEN
        IF left.depth \in Int THEN countLoop(trimmed, mid + 1, hi, left) ELSE left
      ELSE IF char \in {"\"", "'"} /\ prevChar # "\\" THEN
        IF ~st.inString THEN [st EXCEPT !.inString = TRUE, !.stringChar = char]
        ELSE IF char = st.stringChar THEN [st EXCEPT !.inString = FALSE]
        ELSE st
      ELSE IF st.inString THEN st
      ELSE IF char = "(" THEN [st EXCEPT !.depth = st.depth + 1]
      ELSE IF char = ")" THEN [st EXCEPT !.depth = st.depth - 1]
      ELSE IF char = "," /\ st.depth = 0 THEN [st EXCEPT !.argCount = st.argCount + 1]
      ELSE st

countFunctionArguments(argsString) ==
  LET trimmed == trim(argsString)
  IN  IF trimmed = <<>> THEN 0
      ELSE countLoop(trimmed, 0, Len(trimmed) - 1,
                     [depth |-> 0, inString |-> FALSE, stringChar |-> "",
                      argCount |-> 1]).argCount

\* the turns lo..hi of the for loop of extractFunctionArguments; the turn at
\* trimmed.length reads a comma
RECURSIVE extractLoop(_, _, _, _)
extractLoop(trimmed, lo, hi, st) ==
  LET char     == IF lo < Len(trimmed) THEN trimmed[lo + 1] ELSE ","
      prevChar == IF lo > 0 THEN trimmed[lo] ELSE ""
      mid      == (lo + hi) \div 2
      left     == extractLoop(trimmed, lo, mid, st)
  IN  IF lo > hi THEN st
      ELSE IF lo < hi THEN
        IF left.depth \in Int THEN extractLoop(trimmed, mid + 1, hi, left) ELSE left
      ELSE IF char \in {"\"", "'"} /\ prevChar # "\\" THEN
        IF ~st.inString THEN [st EXCEPT !.inString = TRUE, !.stringChar = char]
        ELSE IF char = st.stringChar THEN [st EXCEPT !.inString = FALSE]
        ELSE st
      ELSE IF st.inString THEN st
      ELSE IF char = "(" THEN [st EXCEPT !.depth = st.depth + 1]
      ELSE IF char = ")" THEN [st EXCEPT !.depth = st.depth - 1]
      ELSE IF (char = "," /\ st.depth = 0) \/ lo = Len(trimmed) THEN
        [st EXCEPT !.args = Append(st.args,
                                   [text  |-> trim(SubSeq(trimmed, st.argStart + 1, lo)),
                                    start |-> st.argStart,
                                    end   |-> lo]),
                   !.argStart = lo + 1]
      ELSE st

extractFunctionArguments(argsString) ==
  LET trimmed == trim(argsString)
  IN  IF trimmed = <<>> THEN <<>>
      ELSE extractLoop(trimmed, 0, Len(trimmed),
                       [args |-> <<>>, depth |-> 0, inString |-> FALSE,
                        stringChar |-> "", argStart |-> 0]).args

(***************************************************************************)
(* lib/type-system.js: inferExpressionType                                 *)
(***************************************************************************)
\* the loop that counts the quotes of a text that starts and ends with
\* quoteChar, turns lo..hi
RECURSIVE quoteLoop(_, _, _, _, _)
quoteLoop(trimmed, quoteChar, lo, hi, st) ==
  LET mid  == (lo + hi) \div 2
      left == quoteLoop(trimmed, quoteChar, lo, mid, st)
  IN  IF lo > hi THEN st
      ELSE IF lo < hi THEN
        IF left.quoteCount \in Int THEN quoteLoop(trimmed, quoteChar, mid + 1, hi, left)
        ELSE left
      ELSE IF st.escaped THEN [st EXCEPT !.escaped = FALSE]
      ELSE IF trimmed[lo + 1] = "\\" THEN [st EXCEPT !.escaped = TRUE]
      ELSE IF trimmed[lo + 1] = quoteChar
        THEN [st EXCEPT !.quoteCount = st.quoteCount + 1]
      ELSE st

\* the loop that looks for a comparison operator outside quotes and
\* parentheses, turns lo..hi
RECURSIVE comparisonLoop(_, _, _, _)
comparisonLoop(trimmed, lo, hi, st) ==
  LET char == trimmed[lo + 1]
      mid  == (lo + hi) \div 2
      left == comparisonLoop(trimmed, lo, mid, st)
  IN  IF lo > hi THEN st
      ELSE IF lo < hi THEN
        IF left.foundTopLevelComparison THEN left
        ELSE comparisonLoop(trimmed, mid + 1, hi, left)
      ELSE IF st.foundTopLevelComparison THEN st
      ELSE IF char \in {"\"", "'"} /\ (lo = 0 \/ trimmed[lo] # "\\") THEN
        IF ~st.inQuotes THEN [st EXCEPT !.inQuotes = TRUE, !.quoteChar = char]
        ELSE IF char = st.quoteChar THEN [st EXCEPT !.inQuotes = FALSE, !.quoteChar = ""]
        ELSE st
      ELSE IF st.inQuotes THEN st
      ELSE IF char = "(" THEN [st EXCEPT !.parenDepth = st.parenDepth + 1]
      ELSE IF char = ")" THEN [st EXCEPT !.parenDepth = st.parenDepth - 1]
      ELSE IF st.parenDepth = 0 /\ char \in {"=", "<", ">", "!"}
        THEN [st EXCEPT !.foundTopLevelComparison = TRUE]
      ELSE st

\* the 1-based position after the run of word characters from the 0-based
\* index i on, that is the 0-based index of the first character after it
wordEnd(text, i) ==
  Min({j \in i..(Len(text) - 1) : ~IsWordChar(text[j + 1])} \cup {Len(text)})

\* the regular expression \b([A-Z][A-Z0-9_]*)\s*\( with the flag i, tried at
\* the 0-based index i: the 0-based index of the parenthesis, -1 for no match
functionCallAt(text, i) ==
  LET rest == {j \in wordEnd(text, i)..(Len(text) - 1) : ~IsWS(text[j + 1])}
  IN  IF /\ i < Len(text)
         /\ IsLetter(text[i + 1])
         /\ (i = 0 \/ ~IsWordChar(text[i]))
         /\ rest # {}
         /\ text[Min(rest) + 1] = "("
      THEN Min(rest)
      ELSE -1

\* the name the match at i captures
matchedName(text, i) == SubSeq(text, i + 1, wordEnd(text, i))

inferExpressionType(expr, variables) ==
  LET trimmed == trim(expr)
      Type(type, confidence) == [type |-> type, confidence |-> confidence]
      quoted  == \/ startsWith(trimmed, <<"\"">>) /\ endsWith(trimmed, <<"\"">>)
                 \/ startsWith(trimmed, <<"'">>) /\ endsWith(trimmed, <<"'">>)
      quoteCount == quoteLoop(trimmed, trimmed[1], 0, Len(trimmed) - 1,
                              [escaped |-> FALSE, quoteCount |-> 0]).quoteCount
      content == SubSeq(trimmed, 2, Len(trimmed) - 1)
      unsigned == IF At(trimmed, 1) = "-" THEN SubSeq(trimmed, 2, Len(trimmed))
                  ELSE trimmed
      intEnd  == digitsEnd(unsigned, 1)
      afterDollar == SubSeq(trimmed, 2, Len(trimmed))
      varName == SubSeq(afterDollar, 1,
                        Min({j \in 1..Len(afterDollar) : afterDollar[j] = "/"}
                              \cup {Len(afterDollar) + 1}) - 1)
      mappedType == RM_TYPE_MAPPING(rmTypeOf(variables, varName))
      hasAny(S) == \E j \in 1..Len(trimmed) : trimmed[j] \in S
      foundTopLevelComparison ==
        comparisonLoop(trimmed, 0, Len(trimmed) - 1,
                       [inQuotes |-> FALSE, quoteChar |-> "", parenDepth |-> 0,
                        foundTopLevelComparison |-> FALSE]).foundTopLevelComparison
      funcInfo == FUNCTION_LOOKUP(toUpperCase(matchedName(trimmed, 0)))
  IN  IF trimmed = <<>> THEN Type(JsNull, "low")
      ELSE IF quoted /\ quoteCount = 2 THEN
        IF ymdAt(content, 1) /\ At(content, 11) = "T" /\ hmAt(content, 12)
          THEN Type("iso8601_datetime", "high")
        ELSE IF datePattern(content) THEN Type("iso8601_date", "high")
        ELSE IF hmsAt(content, 1) THEN Type("iso8601_time", "high")
        ELSE IF At(content, 1) = "P"
                /\ durationRest(content, 2, <<"Y", "M", "D">>, FALSE, FALSE, 0).matched
          THEN Type("iso8601_duration", "high")
        ELSE Type("text", "high")
      ELSE IF intEnd > 1 /\ intEnd = Len(unsigned) + 1 THEN Type("integer", "high")
      ELSE IF /\ intEnd > 1
              /\ At(unsigned, intEnd) = "."
              /\ digitsEnd(unsigned, intEnd + 1) > intEnd + 1
              /\ digitsEnd(unsigned, intEnd + 1) = Len(unsigned) + 1
        THEN Type("number", "high")
      ELSE IF toUpperCase(trimmed) \in {<<"T", "R", "U", "E">>, <<"F", "A", "L", "S", "E">>}
        THEN Type("boolean", "high")
      ELSE IF startsWith(trimmed, <<"$">>) THEN
        IF mappedType # JsNull THEN Type(mappedType, "high") ELSE Type(JsNull, "low")
      ELSE IF hasAny({"<", ">", "=", "!"}) /\ foundTopLevelComparison
        THEN Type("boolean", "high")
      ELSE IF functionCallAt(trimmed, 0) # -1 /\ funcInfo # <<>>
        THEN Type(funcInfo[1].returns, "high")
      ELSE IF hasAny({"+", "-", "*", "/", "^", "%"}) /\ ~hasAny({"\"", "'"})
        THEN Type("number", "medium")
      ELSE IF hasAny({"&"}) THEN Type("text", "medium")
      ELSE Type(JsNull, "low")

(***************************************************************************)
(* lib/validation.js: validateFunctionCalls.  A diagnostic keeps its code, *)
(* its severity and its range as offsets into the text; call and arg note  *)
(* the match and the 1-based argument it was pushed for (0 for the call as *)
(* a whole), which the type message spells out as "Argument n".            *)
(***************************************************************************)
Diagnostic_AlwaysError(code, severity, start, end, call, arg) ==
  [code |-> code, severity |-> "Error", start |-> start, end |-> end,
   call |-> call, arg |-> arg]

Diagnostic(code, severity, start, end, call, arg) ==
  [code |-> code, severity |-> severity, start |-> start, end |-> end,
   call |-> call, arg |-> arg]

\* the matches of functionCallRegex, as 0-based start indices
functionCalls(text) == {i \in 0..(Len(text) - 1) : functionCallAt(text, i) # -1}

\* the loop that looks for the closing parenthesis of the match, the same
\* turns as the loop of findMatchingParen
closeParenIndexOf(text, openParenIndex) == findMatchingParen(text, openParenIndex)

\* argCount < minArgs, or argCount > maxArgs for a function that is not variadic
countMessage(funcInfo, argCount) ==
  \/ argCount < funcInfo.minArgs
  \/ funcInfo.maxArgs # STAR /\ argCount > funcInfo.maxArgs

\* the parameter the 0-based argument i is checked against, none for continue
expectedParamOf(funcInfo, i) ==
  LET params    == funcInfo.params
      lastParam == params[Len(params)]
      optionals == {k \in 1..Len(params) : params[k].optional}
  IN  IF i < Len(params) THEN <<params[i + 1]>>
      ELSE IF funcInfo.maxArgs = STAR /\ Len(params) > 0 THEN
        IF lastParam.optional THEN <<lastParam>>
        ELSE IF optionals # {} THEN <<params[Min(optionals)]>>
        ELSE <<lastParam>>
      ELSE <<>>

iso8601Types == {"iso8601_datetime", "iso8601_date", "iso8601_time", "iso8601_duration"}

\* argsString.indexOf(argText)
indexOf(argsString, argText) ==
  Min({p \in 0..(Len(argsString) - Len(argText)) :
         SubSeq(argsString, p + 1, p + Len(argText)) = argText})

\* inferredType.confidence === 'high'
highConfidence_Any(inferredType) == TRUE

highConfidence(inferredType) == inferredType.confidence = "high"

\* one turn of the for loop over args: the diagnostic pushed for the 0-based
\* argument i, if any
argDiagnostics(variables, index, openParenIndex, funcInfo, argsString, args, i) ==
  LET arg            == args[i + 1]
      expectedParam  == expectedParamOf(funcInfo, i)
      inferredType   == inferExpressionType(arg.text, variables)
      argStartInDoc  == openParenIndex + 1 + indexOf(argsString, arg.text)
      argEndInDoc    == argStartInDoc + Len(arg.text)
      trimmedArg     == trim(arg.text)
  IN  IF expectedParam = <<>> THEN <<>>
      ELSE IF expectedParam[1].type = "any" THEN <<>>
      ELSE IF /\ expectedParam[1].type \in iso8601Types
              /\ \/ startsWith(trimmedArg, <<"\"">>) /\ endsWith(trimmedArg, <<"\"">>)
                 \/ startsWith(trimmedArg, <<"'">>) /\ endsWith(trimmedArg, <<"'">>)
              /\ ~validateISO8601String(trimmedArg).valid
        THEN <<Diagnostic("invalid-iso8601", "Error", argStartInDoc, argEndInDoc,
                          index, i + 1)>>
      ELSE IF /\ inferredType.type # JsNull
              /\ highConfidence(inferredType)
              /\ ~isTypeCompatible(inferredType.type, expectedParam[1].type)
        THEN <<Diagnostic("type-mismatch", "Warning", argStartInDoc, argEndInDoc,
                          index, i + 1)>>
      ELSE <<>>

\* the for loop over args, from the 0-based argument i on
RECURSIVE typeDiagnostics(_, _, _, _, _, _, _)
typeDiagnostics(variables, index, openParenIndex, funcInfo, argsString, args, i) ==
  IF i >= Len(args) THEN <<>>
  ELSE argDiagnostics(variables, index, openParenIndex, funcInfo, argsString, args, i)
         \o typeDiagnostics(variables, index, openParenIndex, funcInfo, argsString,
                            args, i + 1)

isGenericField_AnyType(variables, varName) == rmTypeOf(variables, varName) # JsNull

\* varInfo?.rmType === 'GENERIC_FIELD'
isGenericField(variables, varName) == rmTypeOf(variables, varName) = "GENERIC_FIELD"

\* one turn of the while loop over the matches: the diagnostics pushed for
\* the match at index; the message is kept for the ISNULL rule only
callDiagnostics(text, variables, index) ==
  LET funcName        == toUpperCase(matchedName(text, index))
      funcInfo        == FUNCTION_LOOKUP(funcName)
      openParenIndex  == functionCallAt(text, index)
      closeParenIndex == closeParenIndexOf(text, openParenIndex)
      argsString      == SubSeq(text, openParenIndex + 2, closeParenIndex)
      message         == countMessage(funcInfo[1], countFunctionArguments(argsString))
      args            == extractFunctionArguments(argsString)
      firstArg        == trim(args[1].text)
      varName         == SubSeq(firstArg, 2,
                                Min({j \in 2..Len(firstArg) : firstArg[j] = "/"}
                                      \cup {Len(firstArg) + 1}) - 1)
  IN  IF funcInfo = <<>> THEN
        IF closeParenIndex # -1
        THEN <<Diagnostic("unknown-function", "Warning", index, closeParenIndex + 1,
                          index, 0)>>
        ELSE <<>>
      ELSE IF closeParenIndex = -1 THEN <<>>
      ELSE
        (IF message
         THEN <<Diagnostic("invalid-argument-count", "Error", index,
                           closeParenIndex + 1, index, 0)>>
         ELSE <<>>)
        \o
        (IF /\ funcName = <<"I", "S", "N", "U", "L", "L">>
            /\ ~message
            /\ Len(args) > 0
            /\ startsWith(firstArg, <<"$">>)
            /\ isGenericField(variables, varName)
         THEN <<Diagnostic("isnull-generic-field", "Error", index,
                           closeParenIndex + 1, index, 0)
                  @@ ("message" :>
                        <<"I", "S", "N", "U", "L", "L", "(", ")", " ", "d", "o", "e", "s", " ",
                            "n", "o", "t", " ", "w", "o", "r", "k", " ", "w", "i", "t", "h",
                            " ", "G", "E", "N", "E", "R", "I", "C", "_", "F", "I", "E", "L",
                            "D", " ", "v", "a", "r", "i", "a", "b", "l", "e", "s", ".", " ",
                            "U", "s", "e", " ", "I", "S", "B", "L", "A", "N", "K", "(">>
                          \o firstArg \o <<")", " ", "i", "n", "s", "t", "e", "a", "d", ".">>)>>
         ELSE <<>>)
        \o
        (IF ~message /\ Len(funcInfo[1].params) > 0
         THEN typeDiagnostics(variables, index, openParenIndex, funcInfo[1],
                              argsString, args, 0)
         ELSE <<>>)

\* the while loop over the matches that are left, in the order of the text
RECURSIVE validateLoop(_, _, _)
validateLoop(text, variables, calls) ==
  IF calls = {} THEN <<>>
  ELSE callDiagnostics(text, variables, Min(calls))
         \o validateLoop(text, variables, calls \ {Min(calls)})

validateFunctionCalls(text, variables) ==
  validateLoop(text, variables, functionCalls(text))

(***************************************************************************)
(* lib/validation.js: detectMissingCommas.  A finding keeps its range and  *)
(* its insert position as offsets into the text, and the match it was      *)
(* found in.                                                               *)
(***************************************************************************)
\* the turns lo..hi of the for loop over argsText; next is the index the
\* loop goes on with after a token it has jumped over.  The test for the
\* operators of two characters is left out: each begins with < or >, which
\* the test for the operators of one character has taken before it.
RECURSIVE missingCommaLoop(_, _, _, _, _, _)
missingCommaLoop(argsText, argsStartOffset, index, lo, hi, st) ==
  LET char     == argsText[lo + 1]
      prevChar == IF lo > 0 THEN argsText[lo] ELSE ""
      mid      == (lo + hi) \div 2
      left     == missingCommaLoop(argsText, argsStartOffset, index, lo, mid, st)
      gapText  == SubSeq(argsText, st.lastValueEnd + 1, lo)
      gapFound == /\ st.lastValueEnd # -1
                  /\ gapText # <<>>
                  /\ \A k \in 1..Len(gapText) : IsWS(gapText[k])
      stringEnd == Min({j \in (lo + 1)..(Len(argsText) - 1) : argsText[j + 1] = char}
                         \cup {Len(argsText)}) + 1
      more(j)  == IF char = "$"
                  THEN IsWordChar(argsText[j + 1]) \/ argsText[j + 1] \in {".", "/"}
                  ELSE IF IsLetter(char) \/ char = "_" THEN IsWordChar(argsText[j + 1])
                  ELSE IsDigit(argsText[j + 1]) \/ argsText[j + 1] = "."
      tokenEnd == Min({j \in (lo + 1)..(Len(argsText) - 1) : ~more(j)}
                        \cup {Len(argsText)})
      checkPos == Min({j \in tokenEnd..(Len(argsText) - 1) : ~IsWS(argsText[j + 1])}
                        \cup {Len(argsText)})
      finding(end) == [start  |-> argsStartOffset + st.lastValueEnd,
                       end    |-> argsStartOffset + end,
                       insert |-> argsStartOffset + st.lastValueEnd,
                       call   |-> index]
  IN  IF lo > hi THEN st
      ELSE IF lo < hi THEN
        IF left.argDepth \in Int
        THEN missingCommaLoop(argsText, argsStartOffset, index, mid + 1, hi, left)
        ELSE left
      ELSE IF lo < st.next THEN st
      ELSE IF char \in {"\"", "'"} /\ prevChar # "\\" THEN
        IF ~st.argInString THEN
          [st EXCEPT !.found = IF gapFound
                               THEN Append(st.found,
                                           finding(IF stringEnd < Len(argsText)
                                                   THEN stringEnd ELSE Len(argsText)))
                               ELSE st.found,
                     !.argInString = TRUE,
                     !.argStringChar = char]
        ELSE IF char = st.argStringChar
        THEN [st EXCEPT !.argInString = FALSE, !.lastValueEnd = lo + 1]
        ELSE st
      ELSE IF st.argInString THEN st
      ELSE IF char = "(" THEN [st EXCEPT !.argDepth = st.argDepth + 1]
      ELSE IF char = ")" THEN
        [st EXCEPT !.argDepth = st.argDepth - 1,
                   !.lastValueEnd = IF st.argDepth - 1 = 0 THEN lo + 1
                                    ELSE st.lastValueEnd]
      ELSE IF st.argDepth > 0 THEN st
      ELSE IF char = "," THEN [st EXCEPT !.lastValueEnd = -1]
      ELSE IF char \in {"+", "-", "*", "/", "^", "&", "%", "=", "<", ">", "?",
          ":"} THEN [st EXCEPT !.lastValueEnd = -1]
      ELSE IF IsWS(char) THEN st
      ELSE IF char = "$" \/ IsLetter(char) \/ char = "_" \/ IsDigit(char) THEN
        IF /\ IsLetter(char) \/ char = "_"
           /\ checkPos < Len(argsText)
           /\ argsText[checkPos + 1] = "("
        THEN [st EXCEPT !.next = tokenEnd]
        ELSE [st EXCEPT !.found = IF gapFound THEN Append(st.found, finding(tokenEnd))
                                  ELSE st.found,
                        !.lastValueEnd = tokenEnd,
                        !.next = tokenEnd]
      ELSE st

\* one turn of the while loop over the matches: the findings in the
\* arguments of the match at index
callMissingCommas(text, index) ==
  LET openParenIndex  == functionCallAt(text, index)
      closeParenIndex == closeParenIndexOf(text, openParenIndex)
      argsText        == SubSeq(text, openParenIndex + 2, closeParenIndex)
  IN  IF closeParenIndex = -1 THEN <<>>
      ELSE missingCommaLoop(argsText, openParenIndex + 1, index, 0, Len(argsText) - 1,
                            [argDepth |-> 0, argInString |-> FALSE, argStringChar |-> "",
                             lastValueEnd |-> -1, next |-> 0, found |-> <<>>]).found

\* the while loop over the matches that are left, in the order of the text
RECURSIVE missingCommasOf(_, _)
missingCommasOf(text, calls) ==
  IF calls = {} THEN <<>>
  ELSE callMissingCommas(text, Min(calls)) \o missingCommasOf(text, calls \ {Min(calls)})

detectMissingCommas(text) == missingCommasOf(text, functionCalls(text))

(***************************************************************************)
(* Texts and variable tables of the validator.  Three families of calls:   *)
(* every argument text up to MaxArgLen over a small alphabet, for the      *)
(* counting of arguments; one or two arguments drawn from sample           *)
(* expressions of every inferred type and confidence, for the type rule;   *)
(* and string literals around and beyond the date, time and duration       *)
(* shapes, for the ISO-8601 rule.                                          *)
(***************************************************************************)
MaxArgLen == 4

Variable(name, rmType) == [name |-> name, rmType |-> rmType]

\* a form description with one variable of each kind the rules tell apart
FormVariables ==
  << Variable(<<"f", "l", "a", "g">>, "DV_BOOLEAN"),
     Variable(<<"n">>, "DV_QUANTITY"),
     Variable(<<"c">>, "DV_COUNT"),
     Variable(<<"t">>, "DV_TEXT"),
     Variable(<<"d">>, "DV_DATE_TIME"),
     Variable(<<"g">>, "GENERIC_FIELD") >>

\* no form description was found
NoVariables == <<>>

Call(name, argsString) == name \o <<"(">> \o argsString \o <<")">>

ArityAlphabet == {"1", ",", " ", "\"", "'", "(", ")"}

ArityNames == {<<"N", "O", "T">>, <<"S", "U", "M">>, <<"I", "F">>, <<"N", "O", "W">>, <<"F",
    "O", "O">>}

ArityTexts ==
  {Call(p[1], p[2]) : p \in ArityNames \X SeqsUpTo(ArityAlphabet, MaxArgLen)}

TypeArgs ==
  { <<"$", "f", "l", "a", "g">>, <<"$", "n">>, <<"$", "c">>, <<"$", "t">>, <<"$", "g">>, <<"$",
      "z", "z">>, <<"1">>, <<"-", "1">>, <<"1", ".", "5">>,
    <<"\"", "a", "\"">>, <<"T", "R", "U", "E">>, <<"$", "n", " ", ">", " ", "1">>, <<"$", "n",
        " ", "+", " ", "1">>, <<"\"", "a", "\"", " ", "&", " ", "\"", "b", "\"">>, <<"L", "E",
        "N", "(", "\"", "a", "\"", ")">>, <<"N", "O", "W", "(", ")">>,
    <<"\"", "2", "0", "2", "4", "-", "0", "1", "-", "0", "1", "\"">>, <<"a">> }

TypeNames == {<<"L", "E", "N">>, <<"N", "O", "T">>, <<"S", "U", "M">>, <<"I", "F">>, <<"I", "S",
    "N", "U", "L", "L">>, <<"D", "A", "T", "E", "V", "A", "L", "U", "E">>}

TypeTexts ==
  {Call(p[1], p[2]) : p \in TypeNames \X TypeArgs}
  \cup
  {Call(p[1], p[2] \o <<",", " ">> \o p[3]) : p \in TypeNames \X TypeArgs \X TypeArgs}

IsoMonths == {<<"0", "0">>, <<"0", "1">>, <<"1", "2">>, <<"1", "3">>}

IsoDays == {<<"0", "0">>, <<"0", "1">>, <<"3", "1">>, <<"3", "2">>}

IsoHours == {<<"0", "0">>, <<"2", "3">>, <<"2", "4">>}

IsoSixties == {<<"0", "0">>, <<"5", "9">>, <<"6", "0">>}

IsoTails == {<<>>, <<".", "5">>, <<".", "1", "2", "3", "4">>, <<"Z">>, <<"+", "0", "1", ":",
    "0", "0">>, <<"+", "1">>}

IsoDates ==
  {<<"2", "0", "2", "4", "-">> \o p[1] \o <<"-">> \o p[2] : p \in IsoMonths \X IsoDays}

IsoTimes ==
  {p[1] \o <<":">> \o p[2] \o <<":">> \o p[3] \o p[4] :
     p \in IsoHours \X IsoSixties \X IsoSixties \X IsoTails}

IsoDateTimes ==
  {p[1] \o <<"T">> \o p[2] :
     p \in {<<"2", "0", "2", "4", "-", "0", "1", "-", "3", "1">>, <<"2", "0", "2", "4", "-",
         "1", "3", "-", "0", "1">>, <<"2", "0", "2", "4", "-", "0", "0", "-", "3", "1">>, <<"2",
         "0", "2", "4", "-", "1", "2", "-", "3", "2">>} \X IsoTimes}

IsoDurations ==
  { <<"P">>, <<"P", "T">>, <<"P", "1", "D">>, <<"P", "T", "1", "H">>, <<"P", "1", "Y", "2",
      "M">>, <<"P", "1", ".", "5", "D">>, <<"P", "1", "W">>, <<"P", "T", "1", "H", "3", "0",
      "M", "5", "S">>,
    <<"P", "1", "D", "T">>, <<"P", "1", "X">>, <<"P", "1", "M", "2", "Y">>, <<"P", "1">>, <<"P",
        "T", "1", "H", "T">>, <<"T", "1", "H">>, <<"x", "P", "1", "D">>, <<"p", "1", "d">> }

IsoOthers ==
  { <<>>, <<"h", "e", "l", "l", "o">>, <<"P", "a", "r", "i", "s">>, <<"2", "0", "2", "4", "-",
      "0", "1">>, <<"1", "2", ":", "3", "0">>, <<"2", "0", "2", "4", "-", "0", "1", "-", "0",
      "1", "T", "1", "0", ":", "0", "0">>,
    <<"2", "0", "2", "4", "/", "0", "1", "/", "0", "1">>, <<"1", "-", "1", "-", "2", "0", "2",
        "4">>, <<"a", "t", " ", "1", "2", ":", "3", "0", ":", "0", "0">>, <<"2", "0", "2",
        "4">> }

IsoContents == IsoDates \cup IsoTimes \cup IsoDateTimes \cup IsoDurations \cup IsoOthers

Quoted(q, content) == <<q>> \o content \o <<q>>

IsoTexts ==
  {Call(<<"D", "A", "T", "E", "V", "A", "L", "U", "E">>, Quoted(p[1], p[2])) : p \in {"\"",
      "'"} \X IsoContents}
  \cup
  {Call(<<"D", "U", "R", "A", "T", "I", "O", "N", "_", "A", "D", "D">>, <<"\"", "2", "0", "2",
      "4", "-", "0", "1", "-", "0", "1", "T", "1", "0", ":", "0", "0", ":", "0", "0", "\"", ",",
      " ">> \o Quoted(p[1], p[2])) :
     p \in {"\"", "'"} \X IsoContents}

\* nested and repeated calls, an unknown name, an unclosed call, names in
\* lower case, strings that hold quotes, parentheses and backslashes
ValidateSamples ==
  { <<"S", "U", "M", "(", ")">>,
    <<"S", "U", "M", "(", "1", ",", "2", ",", "3", ")">>,
    <<"N", "O", "W", "(", ")">>,
    <<"N", "O", "W", "(", " ", ")">>,
    <<"N", "O", "W", "(", "1", ")">>,
    <<"S", "U", "M", "(", "1", ",", " ", "$", "n", ",", " ", "T", "R", "U", "E", ",", " ", "\"",
        "a", "\"", ")">>,
    <<"I", "F", "(", "$", "n", ",", " ", "1", ",", " ", "\"", "a", "\"", ")">>,
    <<"I", "F", "(", "$", "f", "l", "a", "g", ",", " ", "1", ",", " ", "2", ",", " ", "3",
        ")">>,
    <<"I", "F", "(", "N", "O", "T", "(", "$", "f", "l", "a", "g", ")", ",", " ", "S", "U", "M",
        "(", "1", ",", " ", "2", ")", ",", " ", "L", "E", "N", "(", "\"", "a", "\"", ")", ")">>,
    <<"1", " ", "+", " ", "S", "U", "M", "(", "1", ",", " ", "T", "R", "U", "E", ")", " ", "*",
        " ", "s", "u", "m", " ", "(", "2", ")">>,
    <<"N", "O", "T", "(", "1", ")", " ", "+", " ", "N", "O", "T", "(", "$", "f", "l", "a", "g",
        "/", "v", "a", "l", "u", "e", ")">>,
    <<"S", "U", "M", "(", "T", "R", "U", "E", ",", " ", "T", "R", "U", "E", ")">>,
    <<"N", "O", "T", "(", "\"", "N", "O", "T", "(", "\"", ")">>,
    <<"N", "O", "T", "(", "\"", "a", "\"", " ", "=", " ", "\"", "b", "\"", ")">>,
    <<"L", "E", "N", "(", "\"", "a", "\"", "\"", "b", "\"", ")">>,
    <<"L", "E", "N", "(", "'", "i", "t", "'", "'", "s", "'", ",", " ", "1", ")">>,
    <<"F", "O", "O", "(", "1", ")">>,
    <<"F", "O", "O", "(", "1">>,
    <<"F", "O", "O", "(", "1", ",", " ", "S", "U", "M", "(", "T", "R", "U", "E", ")", ",", " ",
        "B", "A", "R", "(", "2">>,
    <<"F", "O", "O", "(", "1", ")", " ", "+", " ", "B", "A", "R", "(", "2">>,
    <<"F", "O", "O", "(", "S", "U", "M", "(", "1", ",", " ", "2", ",", " ", "\"", "a", "\"",
        ")", ",", " ", "\"", ")", "\"", ")">>,
    <<"f", "o", "o", "_", "1", " ", "(", "N", "O", "T", "(", "1", ",", " ", "2", ")", ")", " ",
        "+", " ", "N", "O", "T", "(", "B", "A", "R", "(", "\"", ")">>,
    <<"L", "E", "N", "(", "1">>,
    <<"L", "E", "N", "(", "\"", ")">>,
    <<"L", "E", "N", "(", "(", "1", ")">>,
    <<"S", "U", "M", "(", "1">>,
    <<"x", "1", "(", "1", ")", " ", "+", " ", "_", "N", "O", "T", "(", "1", ",", " ", "2", ")",
        " ", "+", " ", "1", "N", "O", "T", "(", "1", ",", " ", "2", ")">>,
    <<"I", "S", "N", "U", "L", "L", "(", "$", "g", ")">>,
    <<"I", "S", "N", "U", "L", "L", "(", "$", "g", "/", "v", "a", "l", "u", "e", ",", " ", "1",
        ")">>,
    <<"I", "S", "N", "U", "L", "L", "(", "$", "g", "/", "v", "a", "l", "u", "e", ")">>,
    <<"I", "S", "N", "U", "L", "L", "(", " ", "$", "g", "/", "a", "/", "b", " ", ")">>,
    <<"i", "s", "n", "u", "l", "l", " ", "(", "$", "g", ")">>,
    <<"I", "S", "N", "U", "L", "L", "(", "$", "d", "/", "v", "a", "l", "u", "e", ")">>,
    <<"I", "S", "N", "U", "L", "L", "(", "$", "g", "g", ")">>,
    <<"I", "S", "N", "U", "L", "L", "(", "$", "g", ")", " ", "+", " ", "I", "S", "N", "U", "L",
        "L", "(", "$", "n", ")", " ", "+", " ", "I", "s", "N", "u", "l", "l", "(", "$", "g",
        "/", "x", ")">>,
    <<"N", "O", "T", "(", "I", "S", "N", "U", "L", "L", "(", "$", "g", ")", ")">>,
    <<"D", "A", "T", "E", "V", "A", "L", "U", "E", "(", "\"", "2", "0", "2", "4", "-", "1", "3",
        "-", "0", "1", "\"", " ", "&", " ", "\"", "x", "\"", ")">>,
    <<"D", "A", "T", "E", "V", "A", "L", "U", "E", "(", " ", "\"", "2", "0", "2", "4", "-", "1",
        "3", "-", "0", "1", "\"", " ", ")">>,
    <<"D", "U", "R", "A", "T", "I", "O", "N", "_", "A", "D", "D", "(", "$", "d", ",", " ", "$",
        "t", ")">>,
    <<"D", "U", "R", "A", "T", "I", "O", "N", "_", "A", "D", "D", "(", "\"", "P", "1", "D",
        "\"", ",", " ", "\"", "P", "1", "D", "\"", ")">>,
    <<"N", "O", "T", "(", "\"", "\\", "\"", ",", "\"", "\\", "\"", ")">>,
    <<"N", "O", "T", "(", "\"", "\\", "\"", ",", "1", ")">>,
    <<"L", "E", "N", "(", "\"", "a", "\\", "\"", "b", "\"", ")">>,
    <<"L", "E", "N", "(", "\"", "a", "\\", "\\", "\"", ")">>,
    <<"S", "U", "M", "(", "1", ",", "\"", "\\", "\"", ",", "T", "R", "U", "E", ")">>,
    <<"D", "U", "R", "A", "T", "I", "O", "N", "_", "A", "D", "D", "(", "\"", "\\", "\"", ",",
        " ", "\"", "P", "\"", ")">>,
    <<"D", "A", "T", "E", "V", "A", "L", "U", "E", "(", "\"", "2", "0", "2", "4", "-", "1", "3",
        "-", "0", "1", "\\", "\"", "\"", ")">> }

MaxCommaLen == 4

CommaAlphabet == {"$", "a", "1", " ", ",", "+", "\"", "(", ")"}

\* every argument text up to MaxCommaLen over values, blanks, separators,
\* operators, quotes and parentheses
CommaTexts == {Call(<<"S", "U", "M">>, a) : a \in SeqsUpTo(CommaAlphabet, MaxCommaLen)}

CommaSamples ==
  { <<"S", "U", "M", "(", "$", "a", " ", "$", "b", ")">>,
    <<"S", "U", "M", "(", "$", "a", ",", " ", "$", "b", ")">>,
    <<"S", "U", "M", "(", "$", "a", " ", "+", " ", "$", "b", ")">>,
    <<"S", "U", "M", "(", "$", "a", "/", "b", " ", "$", "c", " ", " ", "1", ".", "5", " ", "2",
        " ", "\"", "x", "\"", " ", "'", "y", "'", " ", "z", ")">>,
    <<"S", "U", "M", "(", "$", "a", "/", " ", "$", "b", ")">>,
    <<"S", "U", "M", "(", "1", ".", " ", "a", ",", " ", "b", ".", "c", " ", "d", ",", " ", ".",
        "5", " ", "e", ")">>,
    <<"S", "U", "M", "(", "$", "a", "\n", " ", " ", "$", "b", ")">>,
    <<"S", "U", "M", "(", "$", "a", " ", "<", ">", " ", "$", "b", ",", " ", "$", "a", " ", ">",
        "=", " ", "$", "b", " ", "$", "c", ")">>,
    <<"S", "U", "M", "(", "$", "a", " ", ";", " ", "$", "b", " ", "!", " ", "$", "c", ")">>,
    <<"S", "U", "M", "(", "$", "a", " ", "L", "E", "N", "(", "$", "b", ")", " ", "$", "c",
        ")">>,
    <<"S", "U", "M", "(", "$", "a", " ", "M", "A", "X", "(", "1", ",", " ", "2", ")", ")">>,
    <<"S", "U", "M", "(", "M", "A", "X", "(", "1", ",", " ", "2", ")", " ", "$", "a", ")">>,
    <<"S", "U", "M", "(", "M", "A", "X", "(", "1", ")", " ", "L", "E", "N", "(", "\"", "a",
        "\"", ")", ")">>,
    <<"S", "U", "M", "(", "L", "E", "N", "(", "\"", "a", "\"", " ", "\"", "b", "\"", ")", " ",
        "F", " ", "(", "1", " ", "2", ")", ")">>,
    <<"S", "U", "M", "(", "(", "$", "a", " ", "$", "b", ")", " ", "(", "\"", "x", "\"", " ",
        "\"", "y", "\"", ")", " ", "$", "c", ")">>,
    <<"S", "U", "M", "(", "\"", "a", "\"", "\"", "b", "\"", " ", "$", "c", " ", "\"", "d", "\"",
        "\"", " ", "e", "\"", ")">>,
    <<"S", "U", "M", "(", "'", "a", "\"", "'", " ", "$", "b", " ", "\"", "c", "'", " ", "d",
        "\"", ")">>,
    <<"F", "O", "O", "(", "a", " ", "b">>,
    <<"f", "o", "o", " ", "(", "a", " ", "b", ")", " ", "+", " ", "B", "A", "R", "(", "1", " ",
        "2", ",", " ", "3", ")">>,
    <<"S", "U", "M", "(", "\"", "\\", "\"", " ", "$", "a", " ", "\"", "\\", "\"", ")">>,
    <<"S", "U", "M", "(", "\"", "a", "\\", "\"", " ", "\"", "b", "\"", ",", " ", "$", "c",
        ")">> }

(***************************************************************************)
(* The validator, run once on a document.                                  *)
(***************************************************************************)
InitValidate ==
  /\ \/ document \in TypeTexts \cup ValidateSamples
        /\ formVariables \in {FormVariables, NoVariables}
     \/ document \in ArityTexts \cup IsoTexts \cup CommaTexts \cup CommaSamples
        /\ formVariables = FormVariables
  /\ diagnostics = <<>>
  /\ missingCommas = <<>>
  /\ validated = FALSE
  /\ NotValidateIdle

Validate ==
  /\ ~validated
  /\ diagnostics' = validateFunctionCalls(document, formVariables)
  /\ missingCommas' = detectMissingCommas(document)
  /\ validated' = TRUE
  /\ UNCHANGED <<document, formVariables, notValidate>>

\* the quick fix "Insert missing comma" of one finding: the edit inserts a
\* comma at the start of its range, and the change of the document runs the
\* validation again
InsertMissingComma ==
  /\ validated
  /\ \E k \in 1..Len(missingCommas) :
       document' = SubSeq(document, 1, missingCommas[k].start) \o <<",">>
                     \o SubSeq(document, missingCommas[k].start + 1, Len(document))
  /\ diagnostics' = validateFunctionCalls(document', formVariables)
  /\ missingCommas' = detectMissingCommas(document')
  /\ UNCHANGED <<formVariables, validated, notValidate>>

NextValidate == Validate \/ InsertMissingComma

SpecValidate == InitValidate /\ [][NextValidate]_vars

\* the calls the validator goes on with: the matches with a name of the
\* catalog and a closing parenthesis
checkedCalls(text) ==
  {i \in functionCalls(text) :
     /\ FUNCTION_LOOKUP(toUpperCase(matchedName(text, i))) # <<>>
     /\ closeParenIndexOf(text, functionCallAt(text, i)) # -1}

funcInfoAt(text, i) == FUNCTION_LOOKUP(toUpperCase(matchedName(text, i)))[1]

\* the text between the parentheses of the match at i
argsStringOf(text, i) ==
  SubSeq(text, functionCallAt(text, i) + 2,
         closeParenIndexOf(text, functionCallAt(text, i)))

\* the diagnostics of a code pushed for the argument arg of the call at i
pushed(code, i, arg) ==
  {k \in 1..Len(diagnostics) :
     /\ diagnostics[k].code = code
     /\ diagnostics[k].call = i
     /\ diagnostics[k].arg = arg}

\* the positions of a text outside its strings, by the string rule of the
\* language: a string runs from its delimiter to the next single occurrence
\* of that delimiter, a doubled delimiter standing for the delimiter itself;
\* turns lo..hi over 1-based positions
RECURSIVE outsideStrings(_, _, _, _)
outsideStrings(s, lo, hi, st) ==
  LET mid  == (lo + hi) \div 2
      left == outsideStrings(s, lo, mid, st)
  IN  IF lo > hi THEN st
      ELSE IF lo < hi THEN
        IF left.skip \in BOOLEAN THEN outsideStrings(s, mid + 1, hi, left) ELSE left
      ELSE IF st.skip THEN [st EXCEPT !.skip = FALSE]
      ELSE IF st.delim # "" THEN
        IF s[lo] # st.delim THEN st
        ELSE IF At(s, lo + 1) = st.delim THEN [st EXCEPT !.skip = TRUE]
        ELSE [st EXCEPT !.delim = ""]
      ELSE IF s[lo] \in {"\"", "'"} THEN [st EXCEPT !.delim = s[lo]]
      ELSE [st EXCEPT !.outside = st.outside \cup {lo}]

\* the count of arguments as the specification words it: 0 for an empty or
\* blank text, otherwise 1 plus the commas outside strings and outside
\* nested parentheses
argumentCount(argsString) ==
  LET out == outsideStrings(argsString, 1, Len(argsString),
                            [skip |-> FALSE, delim |-> "", outside |-> {}]).outside
      nesting(j) ==
        Cardinality({k \in out : k < j /\ argsString[k] = "("})
          - Cardinality({k \in out : k < j /\ argsString[k] = ")"})
  IN  IF trim(argsString) = <<>> THEN 0
      ELSE 1 + Cardinality({j \in out : argsString[j] = "," /\ nesting(j) = 0})

\* C8: for every call with a closed parenthesis and a name of the catalog
\* there is exactly one Error invalid-argument-count when the number of
\* arguments is below minArgs, or above maxArgs for a function that is not
\* variadic, and none otherwise; the number of arguments is 0 for an empty
\* or blank argument text and otherwise 1 plus the commas outside strings
\* and nested parentheses.
C8_ArgumentCount ==
  validated =>
    \A i \in checkedCalls(document) :
      LET funcInfo == funcInfoAt(document, i)
          n        == argumentCount(argsStringOf(document, i))
          wrong    == \/ n < funcInfo.minArgs
                      \/ funcInfo.maxArgs # STAR /\ n > funcInfo.maxArgs
      IN  /\ Cardinality(pushed("invalid-argument-count", i, 0))
               = (IF wrong THEN 1 ELSE 0)
          /\ \A k \in pushed("invalid-argument-count", i, 0) :
               diagnostics[k].severity = "Error"

\* the arguments the type rule looks at: the arguments of a call with a
\* valid number of arguments whose expected type is not any, each with the
\* index of its call, its 1-based position, its text and the expected type
typedArgs(text) ==
  UNION
    { LET funcInfo   == funcInfoAt(text, i)
          argsString == argsStringOf(text, i)
          args       == extractFunctionArguments(argsString)
          expected(a) == expectedParamOf(funcInfo, a - 1)
      IN  IF countMessage(funcInfo, countFunctionArguments(argsString)) THEN {}
          ELSE { [call |-> i, arg |-> a, text |-> args[a].text,
                  type |-> expected(a)[1].type] :
                 a \in {a \in 1..Len(args) :
                          expected(a) # <<>> /\ expected(a)[1].type # "any"} }
      : i \in checkedCalls(text) }

\* C9: for a call with a valid number of arguments and an argument whose
\* expected type is not any and whose ISO-8601 validation did not fail, one
\* type-mismatch diagnostic is pushed exactly when the inferred type is not
\* null, its confidence is high and isTypeCompatible is false; it is a
\* Warning, never an Error, and an inference of medium or low confidence
\* yields no diagnostic.
C9_TypeMismatch ==
  validated =>
    \A p \in typedArgs(document) :
      pushed("invalid-iso8601", p.call, p.arg) = {} =>
        LET inferred == inferExpressionType(p.text, formVariables)
            mismatch == /\ inferred.type # JsNull
                        /\ inferred.confidence = "high"
                        /\ ~isTypeCompatible(inferred.type, p.type)
        IN  /\ Cardinality(pushed("type-mismatch", p.call, p.arg))
                 = (IF mismatch THEN 1 ELSE 0)
            /\ \A k \in pushed("type-mismatch", p.call, p.arg) :
                 diagnostics[k].severity = "Warning"
            /\ \A k \in 1..Len(diagnostics) :
                 (diagnostics[k].call = p.call /\ diagnostics[k].arg = p.arg)
                   => diagnostics[k].severity # "Error"
            /\ inferred.confidence \in {"medium", "low"} =>
                 \A k \in 1..Len(diagnostics) :
                   ~(diagnostics[k].call = p.call /\ diagnostics[k].arg = p.arg)

\* LEN($flag) with a boolean variable: one Warning for the argument
C9_Witness ==
  /\ validated
  /\ document = <<"L", "E", "N", "(", "$", "f", "l", "a", "g", ")">>
  /\ formVariables = FormVariables
  /\ Len(diagnostics) = 1
  /\ diagnostics[1].code = "type-mismatch"
  /\ diagnostics[1].severity = "Warning"
  /\ diagnostics[1].arg = 1

\* a text is one complete string literal by the string rule of the
\* language: it opens with a delimiter and the first run of delimiters of
\* odd length after it ends at the end of the text
completeLiteral(s) ==
  LET q      == s[1]
      isEnd(j) == s[j] = q /\ (j = Len(s) \/ s[j + 1] # q)
      runStart(j) == Min({b \in 2..j : \A k \in b..j : s[k] = q})
      closes == {j \in 2..Len(s) : isEnd(j) /\ (j - runStart(j) + 1) % 2 = 1}
  IN  /\ Len(s) >= 2
      /\ q \in {"\"", "'"}
      /\ closes # {}
      /\ Min(closes) = Len(s)

\* the arguments the ISO-8601 rule is about: complete string literals for a
\* parameter of a date, time or duration type
isoArgs(text) ==
  {p \in typedArgs(text) : p.type \in iso8601Types /\ completeLiteral(trim(p.text))}

literalContent(p) == SubSeq(trim(p.text), 2, Len(trim(p.text)) - 1)

\* the ways of being malformed the specification lists
listedMalformed(content) ==
  LET number(p) == parseInt(SubSeq(content, p, p + 1))
  IN  \/ /\ datetimePattern(content) \/ datePattern(content)
         /\ number(6) \notin 1..12 \/ number(9) \notin 1..31
      \/ /\ datetimePattern(content)
         /\ number(12) > 23 \/ number(15) > 59 \/ number(18) > 59
      \/ /\ timePattern(content)
         /\ number(1) > 23 \/ number(4) > 59 \/ number(7) > 59
      \/ /\ durationPattern(content).matched
         /\ durationPattern(content).components = 0

\* a literal of none of the four shapes that still looks like an attempt at
\* one of them
attemptedIso(content) ==
  /\ ~datetimePattern(content)
  /\ ~datePattern(content)
  /\ ~timePattern(content)
  /\ ~durationPattern(content).matched
  /\ looksLikeDate(content) \/ looksLikeTime(content) \/ looksLikeDuration(content)

\* C10 as the specification states it: for a parameter of a date, time or
\* duration type and an argument that is a complete string literal, one
\* Error invalid-iso8601 is pushed exactly when the literal is malformed in
\* one of the listed ways (month outside 1..12, day outside 1..31, hour above
\* 23, minute or second above 59, a duration with no component), and then
\* no type-mismatch Warning is pushed for that argument.
C10_IsoErrorWhenListed ==
  validated =>
    \A p \in isoArgs(document) :
      /\ Cardinality(pushed("invalid-iso8601", p.call, p.arg))
           = (IF listedMalformed(literalContent(p)) THEN 1 ELSE 0)
      /\ \A k \in pushed("invalid-iso8601", p.call, p.arg) :
           diagnostics[k].severity = "Error"
      /\ pushed("invalid-iso8601", p.call, p.arg) # {}
           => pushed("type-mismatch", p.call, p.arg) = {}

\* C10, amended: one Error invalid-iso8601 is pushed exactly when the
\* literal is malformed in one of the listed ways, or has none of the four
\* shapes and yet holds four digits, a hyphen and two digits, or two digits,
\* a colon and two digits, or begins with P, or holds P, digits and one of
\* Y M W D T H S; and then no type-mismatch Warning is pushed for that
\* argument.
C10_IsoError ==
  validated =>
    \A p \in isoArgs(document) :
      /\ Cardinality(pushed("invalid-iso8601", p.call, p.arg))
           = (IF \/ listedMalformed(literalContent(p))
                 \/ attemptedIso(literalContent(p))
              THEN 1 ELSE 0)
      /\ \A k \in pushed("invalid-iso8601", p.call, p.arg) :
           diagnostics[k].severity = "Error"
      /\ pushed("invalid-iso8601", p.call, p.arg) # {}
           => pushed("type-mismatch", p.call, p.arg) = {}

\* DURATION_ADD("2024-01-01T10:00:00", "P"): one Error for the second argument and
\* no Warning
C10_Witness ==
  /\ validated
  /\ document = Call(<<"D", "U", "R", "A", "T", "I", "O", "N", "_", "A", "D", "D">>, <<"\"",
      "2", "0", "2", "4", "-", "0", "1", "-", "0", "1", "T", "1", "0", ":", "0", "0", ":", "0",
      "0", "\"", ",", " ", "\"", "P", "\"">>)
  /\ Len(diagnostics) = 1
  /\ diagnostics[1].code = "invalid-iso8601"
  /\ diagnostics[1].severity = "Error"
  /\ diagnostics[1].arg = 2

(***************************************************************************)
(* The ISNULL rule.                                                        *)
(***************************************************************************)
\* a variable reference, optionally with a path: $name or $name/part/part,
\* each part a letter or underscore followed by letters, digits, underscores
isVariableReference(s) ==
  /\ Len(s) >= 2
  /\ s[1] = "$"
  /\ \A j \in 2..Len(s) :
       \/ IsWordChar(s[j]) /\ (At(s, j - 1) \in {"$", "/"} => ~IsDigit(s[j]))
       \/ s[j] = "/" /\ IsWordChar(s[j - 1]) /\ j < Len(s)

\* the name of a variable reference: what stands between $ and the first /
variableNameOf(s) ==
  SubSeq(s, 2, Min({j \in 2..Len(s) : s[j] = "/"} \cup {Len(s) + 1}) - 1)

\* the calls of ISNULL whose only argument is a variable reference
isnullCalls(text) ==
  {i \in checkedCalls(text) :
     /\ toUpperCase(matchedName(text, i)) = <<"I", "S", "N", "U", "L", "L">>
     /\ isVariableReference(trim(argsStringOf(text, i)))}

\* C11: for every call of ISNULL whose only argument is a variable
\* reference, optionally with a path, there is exactly one Error
\* isnull-generic-field, whose message points to ISBLANK, when the variable
\* table gives the variable the rmType GENERIC_FIELD, and none when it gives
\* another rmType or has no entry for the variable.
C11_IsnullGenericField ==
  validated =>
    \A i \in isnullCalls(document) :
      LET arg     == trim(argsStringOf(document, i))
          generic == rmTypeOf(formVariables, variableNameOf(arg)) = "GENERIC_FIELD"
          found   == pushed("isnull-generic-field", i, 0)
      IN  /\ Cardinality(found) = (IF generic THEN 1 ELSE 0)
          /\ \A k \in found :
               /\ diagnostics[k].severity = "Error"
               /\ indexOf(diagnostics[k].message,
                          <<"U", "s", "e", " ", "I", "S", "B", "L", "A", "N", "K",
                              "(">> \o arg \o <<")">>) # -1

\* ISNULL($g/value) with g a GENERIC_FIELD: the one diagnostic is the Error
C11_Witness ==
  /\ validated
  /\ document = <<"I", "S", "N", "U", "L", "L", "(", "$", "g", "/", "v", "a", "l", "u", "e",
      ")">>
  /\ formVariables = FormVariables
  /\ Len(diagnostics) = 1
  /\ diagnostics[1].code = "isnull-generic-field"
  /\ diagnostics[1].severity = "Error"

(***************************************************************************)
(* The missing comma rule.                                                 *)
(***************************************************************************)
\* the calls with a closing parenthesis, of any name
closedCalls(text) ==
  {i \in functionCalls(text) : closeParenIndexOf(text, functionCallAt(text, i)) # -1}

\* the positions of a text outside its strings, by the string rule of the
\* language
outsideOf(s) ==
  outsideStrings(s, 1, Len(s), [skip |-> FALSE, delim |-> "", outside |-> {}]).outside

\* the nesting depth of the position j of a text whose positions outside
\* strings are out
depthAt(s, out, j) ==
  Cardinality({k \in out : k < j /\ s[k] = "("})
    - Cardinality({k \in out : k < j /\ s[k] = ")"})

\* the position e ends a value: the closing delimiter of a string, or the
\* last character of a variable, an identifier or a number
endsValue(s, out, e) ==
  LET variableFrom(p) ==
        /\ s[p] = "$"
        /\ \A k \in (p + 1)..e : IsWordChar(s[k]) \/ s[k] \in {".", "/"}
      numberFrom(p) ==
        /\ IsDigit(s[p])
        /\ \A k \in p..e : IsDigit(s[k]) \/ s[k] = "."
        /\ ~(IsWordChar(At(s, p - 1)) \/ At(s, p - 1) \in {"$", ".", "/"})
  IN  IF e \notin out THEN e + 1 \in out
      ELSE \/ IsWordChar(s[e])
           \/ s[e] = "$"
           \/ s[e] \in {".", "/"} /\ \E p \in 1..e : variableFrom(p)
           \/ s[e] = "." /\ \E p \in 1..e : numberFrom(p)

\* the position b, which follows a blank, starts a value: the opening
\* delimiter of a string, a variable, a number, or an identifier that is not
\* the name of a call
startsValue(s, out, b) ==
  LET rest == {j \in wordEnd(s, b - 1)..(Len(s) - 1) : ~IsWS(s[j + 1])}
  IN  IF b \notin out THEN TRUE
      ELSE \/ s[b] = "$"
           \/ IsDigit(s[b])
           \/ /\ IsLetter(s[b]) \/ s[b] = "_"
              /\ ~(rest # {} /\ s[Min(rest) + 1] = "(")

\* the findings of the call at i, as indices into missingCommas
findingsOf(i) == {k \in 1..Len(missingCommas) : missingCommas[k].call = i}

\* C12: within the argument text of a closed call, for two consecutive
\* values at nesting depth 0, each a variable, an identifier, a number or a
\* string, detectMissingCommas reports a finding exactly when the text
\* between the end of the first and the start of the second is not empty
\* and is whitespace only: every such pair has one finding, which starts at
\* the end of the first value and reaches into the second, and every
\* finding stands between two values that only whitespace separates, so
\* that a comma or an operator character between two values yields none.
C12_MissingCommas ==
  validated =>
    \A i \in closedCalls(document) :
      LET argsText == argsStringOf(document, i)
          offset   == functionCallAt(document, i) + 1
          out      == outsideOf(argsText)
          blank(e, b) == \A k \in (e + 1)..(b - 1) : IsWS(argsText[k])
      IN  /\ \A e \in 1..(Len(argsText) - 2) :
               \A b \in (e + 2)..Len(argsText) :
                 ( /\ blank(e, b)
                   /\ depthAt(argsText, out, e + 1) = 0
                   /\ endsValue(argsText, out, e)
                   /\ ~IsWS(argsText[b])
                   /\ b \in out \/ b - 1 \in out
                   /\ startsValue(argsText, out, b) )
                 => Cardinality({k \in findingsOf(i) :
                                   /\ missingCommas[k].insert = offset + e
                                   /\ missingCommas[k].start = offset + e
                                   /\ missingCommas[k].end >= offset + b}) = 1
          /\ \A k \in findingsOf(i) :
               LET e == missingCommas[k].insert - offset
                   after == {b \in (e + 1)..Len(argsText) : ~IsWS(argsText[b])}
               IN  /\ e >= 1
                   /\ after # {}
                   /\ Min(after) >= e + 2
                   /\ endsValue(argsText, out, e) \/ argsText[e] = ")"
                   /\ startsValue(argsText, out, Min(after))
                   /\ \A l \in findingsOf(i) :
                        missingCommas[l].insert = missingCommas[k].insert => l = k

(***************************************************************************)
(* Unclosed calls and unknown functions.                                   *)
(***************************************************************************)
\* the diagnostics pushed for the call at i and for its arguments
pushedFor(i) == {k \in 1..Len(diagnostics) : diagnostics[k].call = i}

\* C13: for every occurrence of a name and an opening parenthesis whose
\* closing parenthesis the matcher does not find before the end of the
\* text there is no diagnostic at all, whether the name is in the catalog
\* or not; when the closing parenthesis is found and the name is not in the
\* catalog there is exactly one diagnostic for the call, a Warning
\* unknown-function that reaches from the name to the closing parenthesis.
C13_UnclosedAndUnknown ==
  validated =>
    \A i \in functionCalls(document) :
      LET closeParenIndex == findMatchingParen(document, functionCallAt(document, i))
          known == FUNCTION_LOOKUP(toUpperCase(matchedName(document, i))) # <<>>
      IN  /\ closeParenIndex = -1 => pushedFor(i) = {}
          /\ closeParenIndex # -1 /\ ~known =>
               /\ Cardinality(pushedFor(i)) = 1
               /\ \A k \in pushedFor(i) :
                    /\ diagnostics[k].code = "unknown-function"
                    /\ diagnostics[k].severity = "Warning"
                    /\ diagnostics[k].start = i
                    /\ diagnostics[k].end = closeParenIndex + 1

\* FOO(1) + BAR(2: the one diagnostic is the Warning for FOO, and BAR, whose
\* parenthesis is not closed, has none
C13_Witness ==
  /\ validated
  /\ document = <<"F", "O", "O", "(", "1", ")", " ", "+", " ", "B", "A", "R", "(", "2">>
  /\ functionCalls(document) = {0, 9}
  /\ Len(diagnostics) = 1
  /\ diagnostics[1].code = "unknown-function"
  /\ diagnostics[1].call = 0
  /\ diagnostics[1].start = 0
  /\ diagnostics[1].end = 6

(***************************************************************************)
(* The type system: isTypeCompatible applied to a given and an expected    *)
(* type, each a semantic type or no type at all.                           *)
(***************************************************************************)
InitCompatible ==
  /\ typeGiven \in DOMAIN TYPE_COMPATIBILITY \cup {JsNull}
  /\ typeExpected \in DOMAIN TYPE_COMPATIBILITY \cup {JsNull}
  /\ compatible = <<>>
  /\ NotCompatibleIdle

CheckCompatible ==
  /\ compatible = <<>>
  /\ compatible' = <<isTypeCompatible(typeGiven, typeExpected)>>
  /\ UNCHANGED <<typeGiven, typeExpected, notCompatible>>

NextCompatible == CheckCompatible

SpecCompatible == InitCompatible /\ [][NextCompatible]_vars

\* C14: for every semantic type T, any given where T is expected and T
\* given where any is expected are compatible; null given where T is
\* expected, and T given where null is expected, are compatible only for T
\* any or null.
C14_AnyAndNull ==
  ( /\ compatible # <<>>
    /\ typeGiven \in DOMAIN TYPE_COMPATIBILITY
    /\ typeExpected \in DOMAIN TYPE_COMPATIBILITY ) =>
    /\ typeGiven = "any" \/ typeExpected = "any" => compatible[1]
    /\ typeGiven = "null" => (compatible[1] <=> typeExpected \in {"any", "null"})
    /\ typeExpected = "null" => (compatible[1] <=> typeGiven \in {"any", "null"})

\* null given where a number is expected: not compatible
C14_Witness ==
  /\ typeGiven = "null"
  /\ typeExpected = "number"
  /\ compatible = <<FALSE>>

InferLefts ==
  { <<"$", "n">>, <<"$", "f", "l", "a", "g">>, <<"$", "c", "o", "u", "n", "t">>, <<"$", "n",
      "/", "m", "a", "g", "n", "i", "t", "u", "d", "e">>, <<"S", "U", "M", "(", "$", "a", ",",
      " ", "$", "b", ")">>, <<"L", "E", "N", "(", "\"", "a", "\"", ")">>,
    <<"N", "O", "W", "(", ")">>, <<"I", "F", "(", "$", "x", " ", ">", " ", "0", ",", " ", "1",
        ",", " ", "0", ")">>, <<"F", "O", "O", "(", "1", ")">>, <<"n", "o", "t", " ", "(", "$",
        "f", "l", "a", "g", ")">>, <<"\"", "a", "\"">>, <<"1">>, <<"a">> }

InferOperators ==
  { <<>>, <<" ", "=", " ">>, <<" ", ">", " ">>, <<" ", "<", " ">>, <<" ", "!", "=", " ">>,
      <<" ", "<", ">", " ">>, <<" ", ">", "=", " ">>, <<"=">>, <<" ", "+", " ">>, <<" ", "&",
      " ">> }

InferRights == { <<>>, <<"5">>, <<"3", "0", "5">>, <<"\"", "b", "\"">>, <<"$", "c">> }

InferSamples ==
  { <<"I", "F", "(", "$", "x", " ", ">", " ", "0", ",", " ", "1", ",", " ", "0", ")">>,
    <<"I", "F", "(", "$", "x", " ", ">", " ", "0", ",", " ", "\"", "y", "e", "s", "\"", ",",
        " ", "\"", "n", "o", "\"", ")">>,
    <<"S", "U", "M", "(", "I", "F", "(", "$", "a", " ", "=", " ", "1", ",", " ", "2", ",", " ",
        "3", ")", ",", " ", "4", ")">>,
    <<"N", "O", "T", "(", "$", "a", " ", "=", " ", "1", ")">>,
    <<"L", "E", "N", "(", "\"", "<", "\"", ")">>,
    <<"\"", "a", "=", "b", "\"">>,
    <<"'", "x", " ", ">", " ", "y", "'">>,
    <<"\"", "a", "\"", "\"", "=", "\"">>,
    <<"\"", "a", "\"", " ", "&", " ", "\"", "=", "\"">>,
    <<"(", "\"", "a", "\"", " ", "=", " ", "\"", "b", "\"", ")">>,
    <<"(", "1", " ", "=", " ", "1", ")", " ", "+", " ", "1">>,
    <<"$", "f", "l", "a", "g">>,
    <<" ", "$", "n", " ">>,
    <<"T", "R", "U", "E">>,
    <<"-", "1", ".", "5">>,
    <<"\"", "2", "0", "2", "4", "-", "0", "1", "-", "0", "1", "\"">>,
    <<"\"", "P", "T", "1", "H", "\"">>,
    <<>>,
    <<"\"", "\\", "\"", " ", "&", " ", "\"", "a", "=", "b", "\"">>,
    <<"\"", "\\", "\"", "=", "\"">>,
    <<"L", "E", "N", "(", "\"", "\\", "\"", ")", " ", "=", " ", "L", "E", "N", "(", "\"", "\\",
        "\"", ")">> }

InferExpressions ==
  {p[1] \o p[2] \o p[3] : p \in InferLefts \X InferOperators \X InferRights}
    \cup InferSamples

InitInfer ==
  /\ expression \in InferExpressions
  /\ variableTable \in {FormVariables, NoVariables}
  /\ exprType = <<>>
  /\ NotInferIdle

Infer ==
  /\ exprType = <<>>
  /\ exprType' = <<inferExpressionType(expression, variableTable)>>
  /\ UNCHANGED <<expression, variableTable, notInfer>>

NextInfer == Infer

SpecInfer == InitInfer /\ [][NextInfer]_vars

\* the comparison characters of an expression that stand outside its
\* strings, by the string rule of the language, and outside parentheses
topLevelComparisons(expr) ==
  {j \in outsideOf(expr) :
     expr[j] \in {"=", "<", ">", "!"} /\ depthAt(expr, outsideOf(expr), j) = 0}

comparisonChars(expr) == {j \in 1..Len(expr) : expr[j] \in {"=", "<", ">", "!"}}

\* C16: every expression that starts with a variable or with a call and
\* has one of = < > ! outside quotes and outside parentheses is inferred as
\* boolean with high confidence.
C16_ComparisonFirst ==
  ( /\ exprType # <<>>
    /\ At(trim(expression), 1) = "$" \/ functionCallAt(trim(expression), 0) # -1
    /\ topLevelComparisons(expression) # {} ) =>
    exprType[1] = [type |-> "boolean", confidence |-> "high"]

\* C17: an expression whose comparison characters all stand inside a
\* string or inside parentheses is not inferred as boolean on account of
\* them: it is boolean only as a call of a function that returns boolean,
\* a call of a function of the catalog has the declared return type of the
\* function, and a string literal with = inside is a text.
C17_NoLeak ==
  ( /\ exprType # <<>>
    /\ comparisonChars(expression) # {}
    /\ topLevelComparisons(expression) = {} ) =>
    LET trimmed  == trim(expression)
        funcInfo == FUNCTION_LOOKUP(toUpperCase(matchedName(trimmed, 0)))
        isCall   == functionCallAt(trimmed, 0) # -1 /\ funcInfo # <<>>
    IN  /\ exprType[1].type = "boolean" => isCall /\ funcInfo[1].returns = "boolean"
        /\ isCall => exprType[1] = [type |-> funcInfo[1].returns, confidence |-> "high"]
        /\ expression = <<"\"", "a", "=", "b", "\"">> => exprType[1] = [type |-> "text",
            confidence |-> "high"]

(***************************************************************************)
(* The diagnostics provider: documents are opened, changed and closed, and *)
(* every open or change event runs updateDiagnostics on the document.      *)
(***************************************************************************)
MaxDocs == 2

Uris == 1..MaxDocs

LanguageIds == {"dips-calc", "plaintext"}

DocumentTexts ==
  { <<"N", "O", "T", "(", "1", ",", " ", "2", ")">>, <<"S", "U", "M", "(", "1", " ", "2", ")">>,
      <<"N", "O", "T", "(", "$", "n", ")">>, <<"1", " ", "+", " ", "2">> }

\* what detectMissingDollarSign and detectUndeclaredVariables, the two
\* detectors handed to the provider, add to a pass
DetectorOutputs == { <<>>, <<[code |-> "missing-dollar-sign"]>> }

\* diagnosticCollection.set(uri, diagnostics)
setDiagnostics_Merge(collection, uri, diags) ==
  [collection EXCEPT ![uri] = <<(IF @ = <<>> THEN <<>> ELSE @[1]) \o diags>>]

setDiagnostics(collection, uri, diags) ==
  [collection EXCEPT ![uri] = <<diags>>]

\* the diagnostics of one pass: the validator's, a Warning for each
\* missing comma, and the detectors'
passDiagnostics(text, variables, detected) ==
  LET mcs == detectMissingCommas(text)
  IN  validateFunctionCalls(text, variables)
        \o [k \in 1..Len(mcs) |->
              Diagnostic("missing-comma", "Warning", mcs[k].start, mcs[k].end,
                         mcs[k].call, 0)]
        \o detected

\* updateDiagnostics(document) for the document of uri, with the variables
\* found for it and the detectors' findings
updateDiagnostics(uri, textDocument, variables, detected) ==
  IF textDocument.languageId # "dips-calc"
  THEN UNCHANGED <<diagnosticCollection, lastPass>>
  ELSE /\ diagnosticCollection' =
            setDiagnostics(diagnosticCollection, uri,
                           passDiagnostics(textDocument.text, variables, detected))
       /\ lastPass' = [lastPass EXCEPT ![uri] =
            <<[text |-> textDocument.text, variables |-> variables, detected |-> detected]>>]

InitDiagnostics ==
  /\ textDocuments = [u \in Uris |-> <<>>]
  /\ diagnosticCollection = [u \in Uris |-> <<>>]
  /\ lastPass = [u \in Uris |-> <<>>]
  /\ NotDiagnosticsIdle

OpenTextDocument ==
  \E u \in Uris, l \in LanguageIds, t \in DocumentTexts,
     v \in {FormVariables, NoVariables}, x \in DetectorOutputs :
    /\ textDocuments[u] = <<>>
    /\ textDocuments' = [textDocuments EXCEPT ![u] = <<[languageId |-> l, text |-> t]>>]
    /\ updateDiagnostics(u, [languageId |-> l, text |-> t], v, x)
    /\ UNCHANGED notDiagnostics

ChangeTextDocument ==
  \E u \in Uris, t \in DocumentTexts,
     v \in {FormVariables, NoVariables}, x \in DetectorOutputs :
    /\ textDocuments[u] # <<>>
    /\ textDocuments' = [textDocuments EXCEPT ![u] = <<[@[1] EXCEPT !.text = t]>>]
    /\ updateDiagnostics(u, [textDocuments[u][1] EXCEPT !.text = t], v, x)
    /\ UNCHANGED notDiagnostics

CloseTextDocument ==
  \E u \in Uris :
    /\ textDocuments[u] # <<>>
    /\ textDocuments' = [textDocuments EXCEPT ![u] = <<>>]
    /\ diagnosticCollection' = [diagnosticCollection EXCEPT ![u] = <<>>]
    /\ lastPass' = [lastPass EXCEPT ![u] = <<>>]
    /\ UNCHANGED notDiagnostics

NextDiagnostics == OpenTextDocument \/ ChangeTextDocument \/ CloseTextDocument

SpecDiagnostics == InitDiagnostics /\ [][NextDiagnostics]_vars

MaxFolders == 2

Folders == 1..MaxFolders

Mtimes == {1, 2}

JsonStatus ==
  <<[calcId |-> JsNull, viewConfig |-> <<>>, rmType |-> JsNull, inputs |-> <<>>,
     children |->
       << [calcId |-> JsNull,
           viewConfig |-> <<[calcId |-> "status", fieldType |-> JsNull]>>,
           rmType |-> "DV_CODED_TEXT",
           inputs |-> << <<"at0001", "", "at0002">>, <<>> >>,
           children |-> <<>>],
          [calcId |-> "g",
           viewConfig |-> <<[calcId |-> JsNull, fieldType |-> "DV_TEXT"]>>,
           rmType |-> "GENERIC_FIELD",
           inputs |-> <<>>,
           children |->
             << [calcId |-> "status", viewConfig |-> <<>>, rmType |-> "DV_ORDINAL",
                 inputs |-> << <<"1">> >>, children |-> <<>>] >>] >>]>>

JsonNoValues ==
  <<[calcId |-> JsNull, viewConfig |-> <<>>, rmType |-> "FORM_DEFINITION",
     inputs |-> <<>>,
     children |->
       << [calcId |-> "n", viewConfig |-> <<>>, rmType |-> "DV_QUANTITY",
           inputs |-> <<>>, children |-> <<>>],
          [calcId |-> "gg",
           viewConfig |-> <<[calcId |-> JsNull, fieldType |-> JsNull]>>,
           rmType |-> "GENERIC_FIELD",
           inputs |-> << <<"">> >>, children |-> <<>>] >>]>>

FileContents == { <<JsonStatus>>, <<JsonNoValues>>, <<>> }

\* extractVariables(obj, variables) for an array of nodes: the table with
\* the variables of the nodes and of the nodes below them
RECURSIVE extractVariables(_, _)
extractVariables(obj, variables) ==
  IF obj = <<>> THEN variables
  ELSE LET RECURSIVE flatten(_)
           flatten(lists) ==
             IF lists = <<>> THEN <<>> ELSE Head(lists) \o flatten(Tail(lists))
           node   == Head(obj)
           calcId == IF node.viewConfig # <<>> /\ node.viewConfig[1].calcId # JsNull
                     THEN node.viewConfig[1].calcId
                     ELSE node.calcId
           dataType ==
             IF /\ node.rmType = "GENERIC_FIELD"
                /\ node.viewConfig # <<>>
                /\ node.viewConfig[1].fieldType # JsNull
             THEN node.viewConfig[1].fieldType
             ELSE node.rmType
           variableInfo ==
             [calcId |-> calcId, rmType |-> dataType,
              values |-> SelectSeq(flatten(node.inputs), LAMBDA v : v # "")]
           isSet == \E k \in 1..Len(variables) : variables[k].calcId = calcId
           withNode ==
             IF calcId = JsNull THEN variables
             ELSE IF isSet
                  THEN [k \in 1..Len(variables) |->
                          IF variables[k].calcId = calcId THEN variableInfo
                          ELSE variables[k]]
                  ELSE Append(variables, variableInfo)
       IN  extractVariables(Tail(obj), extractVariables(node.children, withNode))

\* getVariablesFromFormDescription for the file of folderPath: what is
\* returned and the cache after the call
getVariablesFromFormDescription_AnyMtime(cache, file, folderPath) ==
  IF file = <<>>
  THEN [variables |-> <<>>, cache |-> cache]
  ELSE IF cache[folderPath] # <<>>
       THEN [variables |-> cache[folderPath][1].variables, cache |-> cache]
       ELSE IF file[1].json = <<>>
            THEN [variables |-> <<>>, cache |-> cache]
            ELSE LET variables == extractVariables(file[1].json[1], <<>>)
                 IN  [variables |-> variables,
                      cache |-> [cache EXCEPT ![folderPath] =
                                   <<[variables |-> variables, mtime |-> file[1].mtime]>>]]

getVariablesFromFormDescription(cache, file, folderPath) ==
  IF file = <<>>
  THEN [variables |-> <<>>, cache |-> cache]
  ELSE LET mtime  == file[1].mtime
           cached == cache[folderPath]
           hasValues ==
             \E k \in 1..Len(cached[1].variables) :
               Len(cached[1].variables[k].values) > 0
       IN  IF cached # <<>> /\ cached[1].mtime = mtime /\ hasValues
           THEN [variables |-> cached[1].variables, cache |-> cache]
           ELSE IF file[1].json = <<>>
                THEN [variables |-> <<>>, cache |-> cache]
                ELSE LET variables == extractVariables(file[1].json[1], <<>>)
                     IN  [variables |-> variables,
                          cache |-> [cache EXCEPT ![folderPath] =
                                       <<[variables |-> variables, mtime |-> mtime]>>]]

invalidateCache_Keep(cache, folderPath) == cache

invalidateCache(cache, folderPath) == [cache EXCEPT ![folderPath] = <<>>]

InitCache ==
  /\ fileSystem = [f \in Folders |-> <<>>]
  /\ formDescriptionCache = [f \in Folders |-> <<>>]
  /\ notifications = {}
  /\ NotCacheIdle

\* form_description.json of a folder is created, changed or deleted; the
\* watcher will tell
FileChanged ==
  \E f \in Folders, json \in FileContents, mtime \in Mtimes, deleted \in BOOLEAN :
    LET after == IF deleted THEN <<>> ELSE <<[json |-> json, mtime |-> mtime]>>
    IN  /\ fileSystem[f] # after
        /\ fileSystem' = [fileSystem EXCEPT ![f] = after]
        /\ notifications' = notifications \cup {f}
        /\ UNCHANGED <<formDescriptionCache, notCache>>

\* the handler of the watcher for a change, a creation or a deletion
Notified ==
  \E f \in notifications :
    /\ formDescriptionCache' = invalidateCache(formDescriptionCache, f)
    /\ notifications' = notifications \ {f}
    /\ UNCHANGED <<fileSystem, notCache>>

GetVariables_CacheFailure ==
  \E f \in Folders :
    LET result == getVariablesFromFormDescription(formDescriptionCache, fileSystem[f], f)
    IN  /\ formDescriptionCache' =
             IF fileSystem[f] # <<>> /\ result.variables = <<>>
             THEN [formDescriptionCache EXCEPT ![f] =
                     <<[variables |-> <<>>, mtime |-> fileSystem[f][1].mtime]>>]
             ELSE result.cache
        /\ UNCHANGED <<fileSystem, notifications, notCache>>

\* a provider asks for the variables of a folder
GetVariables ==
  \E f \in Folders :
    LET result == getVariablesFromFormDescription(formDescriptionCache, fileSystem[f], f)
    IN  /\ formDescriptionCache' = result.cache
        /\ UNCHANGED <<fileSystem, notifications, notCache>>

NextCache == FileChanged \/ Notified \/ GetVariables

SpecCache == InitCache /\ [][NextCache]_vars

\* the variables of what the file of a folder holds now: none without a
\* file, none for a file that cannot be parsed
currentVariables(file) ==
  IF file = <<>> \/ file[1].json = <<>> THEN <<>>
  ELSE extractVariables(file[1].json[1], <<>>)

\* C19: once the notification for the file of a folder is processed the
\* cache has no entry for the folder, and as long as it has none a call for
\* the folder returns the variables of what the file holds at the call.
C19_Invalidated ==
  /\ [][\A f \in Folders :
          (f \in notifications /\ f \notin notifications') =>
            formDescriptionCache'[f] = <<>>]_vars
  /\ [](\A f \in DOMAIN formDescriptionCache :
          formDescriptionCache[f] = <<>> =>
            getVariablesFromFormDescription(formDescriptionCache, fileSystem[f], f).variables
              = currentVariables(fileSystem[f]))

\* the call after a notification was processed: the file holds
\* the status and the call cached what it returned
C19_Witness ==
  /\ notifications = {}
  /\ fileSystem[1] = <<[json |-> <<JsonStatus>>, mtime |-> 1]>>
  /\ formDescriptionCache[1] =
       <<[variables |-> extractVariables(JsonStatus, <<>>), mtime |-> 1]>>

\* C20 as stated: a call for a folder whose file has a readable mtime
\* returns the cached table only when the recorded mtime is the file's; on
\* a miss or another mtime the entry of the folder becomes the table parsed
\* from the file with the file's mtime, that table is returned, and the
\* other entries stay.
C20_RereadOverwrites ==
  \A f \in DOMAIN formDescriptionCache :
    LET file   == fileSystem[f]
        cached == formDescriptionCache[f]
        result == getVariablesFromFormDescription(formDescriptionCache, file, f)
    IN  (file # <<>> /\ (cached = <<>> \/ cached[1].mtime # file[1].mtime)) =>
          /\ result.variables = currentVariables(file)
          /\ result.cache = [formDescriptionCache EXCEPT ![f] =
               <<[variables |-> currentVariables(file), mtime |-> file[1].mtime]>>]

\* C20, amended: as stated when the file can be parsed; when it cannot,
\* an empty table is returned and the cache stays as it was.
C20_RereadOverwritesIfParsed ==
  \A f \in DOMAIN formDescriptionCache :
    LET file   == fileSystem[f]
        cached == formDescriptionCache[f]
        result == getVariablesFromFormDescription(formDescriptionCache, file, f)
    IN  (file # <<>> /\ (cached = <<>> \/ cached[1].mtime # file[1].mtime)) =>
          IF file[1].json # <<>>
          THEN /\ result.variables = currentVariables(file)
               /\ result.cache = [formDescriptionCache EXCEPT ![f] =
                    <<[variables |-> currentVariables(file), mtime |-> file[1].mtime]>>]
          ELSE /\ result.variables = <<>>
               /\ result.cache = formDescriptionCache

\* a call found an entry with another mtime than the file's and replaced
\* it: the file of folder 1 holds the status with mtime 2, the call
\* cached it, and the entry of folder 2 is still there
C20_Witness ==
  /\ fileSystem[1] = <<[json |-> <<JsonStatus>>, mtime |-> 2]>>
  /\ formDescriptionCache[1] = <<[variables |-> extractVariables(JsonStatus, <<>>),
      mtime |-> 2]>>
  /\ formDescriptionCache[2] # <<>>
  /\ 1 \in notifications

\* C28: minifying a minified text changes nothing:
\* minifyFormula(minifyFormula(x)) = minifyFormula(x) for every text x.
C28_MinifyIdempotent ==
  LastTwo = <<"minify", "minify">> => doc = prev

(***************************************************************************)
(* Applying formatSingleFormula to one formula.                            *)
(***************************************************************************)
MaxFormulaLen == 5

FormulaAlphabet == {"a", "-", "(", ",", ")"}

FormulaSamples ==
  { <<"f", "(", "(", "a", ")", ",", " ", "(", "b", ")", ")">>, <<"f", "(", "a", ",", " ", "b">>,
      <<"f", "(", "a", ",", " ", "b", ",", " ", "c">>, <<"f", "(", "g", "(", "a", ",", " ", "b",
      ")", ",", " ", "c", ")">>, <<"f", "(", "g", "(", "a", ",", " ", "b", ")", ")">>,
    <<"{", "a", ",", " ", "b", "}">>, <<"{", "a", "}">>, <<"f", "(", "{", "a", ",", " ", "b",
        "}">>, <<"f", "(", "\"", "a", ",", "b", "\"", ")">>, <<"f", "(", "\"", "a", "\"", ",",
        " ", "'", "b", "'", ")">>, <<"f", "(", "(", "a", ",", " ", "b", ")", ",", " ", "(", "c",
        ")", ")">>,
    <<"-", "a">>, <<"-", " ", "a">>, <<"-", "\"", "s", "\"">>, <<"+", "'", "s", "'">>, <<"-",
        "(", "a", ")">>, <<"a", "*", "-", "b">>, <<"a", " ", "*", " ", "-", "(", "b", ")">>,
        <<"f", "(", "-", "a", ",", " ", "+", "b", ")">>,
    <<"a", " ", "+", " ", "b">>, <<"a", "+", "b">>, <<"a", " ", " ", "-", " ", " ", "b">>,
        <<"a", " ", "+", " ", "(", "b", ")">>, <<"(", "a", ")", " ", "-", " ", "b">>, <<"a",
        " ", ">", "=", " ", "b">>, <<"a", " ", "<", ">", " ", "-", "b">>,
    <<"=", "a", " ", "+", " ", "b">>, <<"a", " ", "=", " ", "-", "1">>, <<"f", "(", "a", ";",
        " ", "-", "b", ")">>, <<"\"", "s", "\"", " ", "&", " ", "\"", "t", "\"">>, <<"a", " ",
        "?", " ", "b", " ", ":", " ", "c">> }

FormulaTexts == SeqsUpTo(FormulaAlphabet, MaxFormulaLen) \cup FormulaSamples

InitSingle ==
  /\ doc \in FormulaTexts
  /\ orig = doc
  /\ prev = doc
  /\ cmds = <<>>
  /\ NotTextIdle

FormatSingle ==
  /\ cmds = <<>>
  /\ doc' = formatSingleFormula(doc)
  /\ prev' = doc
  /\ cmds' = <<"formatSingleFormula">>
  /\ UNCHANGED <<orig, notText>>

NextSingle == FormatSingle

SpecSingle == InitSingle /\ [][NextSingle]_vars

\* the k-th smallest element of a set of numbers
kth(S, k) == CHOOSE x \in S : Cardinality({y \in S : y < x}) = k - 1

\* the group that opens at token i, scanned from token j at the given
\* depth: whether it has a comma at its own level and whether each of its
\* arguments has a token
RECURSIVE groupScan(_, _, _, _, _)
groupScan(tokens, j, depth, hasComma, argEmpty) ==
  LET done(e) == [hasComma |-> hasComma, complete |-> ~e] IN
  IF j > Len(tokens) THEN done(argEmpty /\ hasComma)
  ELSE LET t == tokens[j] IN
    IF t.type = "punct" /\ t.value \in {<<"(">>, <<"{">>}
    THEN groupScan(tokens, j + 1, depth + 1, hasComma, FALSE)
    ELSE IF t.type = "punct" /\ t.value \in {<<")">>, <<"}">>}
    THEN IF depth = 1 THEN done(argEmpty /\ hasComma)
         ELSE groupScan(tokens, j + 1, depth - 1, hasComma, FALSE)
    ELSE IF t.type = "punct" /\ t.value = <<",">> /\ depth = 1
    THEN IF argEmpty THEN [hasComma |-> TRUE, complete |-> FALSE]
         ELSE groupScan(tokens, j + 1, depth, TRUE, TRUE)
    ELSE groupScan(tokens, j + 1, depth, hasComma, FALSE)

\* the tokens of a kind, as indices, and where they stand in the output
openerTokens(tokens) ==
  {i \in 1..Len(tokens) : tokens[i].type = "punct" /\ tokens[i].value \in {<<"(">>, <<"{">>}}

openersOf(out) == {j \in outsideOf(out) : out[j] \in {"(", "{"}}

\* C21: a group is broken over several lines, with a line break after its
\* opener, exactly when it holds more than one argument, that is when it
\* has a comma at its own level; also when its arguments are groups and
\* when it is not closed.  Checked for the groups whose arguments all have
\* a token.
C21_ExpandsIffSeveralArguments ==
  cmds = <<"formatSingleFormula">> =>
    LET tokens == tokenize(orig)
        opens  == openerTokens(tokens)
    IN  Cardinality(openersOf(doc)) = Cardinality(opens) =>
          \A k \in 1..Cardinality(opens) :
            LET group == groupScan(tokens, kth(opens, k) + 1, 1, FALSE, TRUE)
            IN  group.complete =>
                  (At(doc, kth(openersOf(doc), k) + 1) = "\n") = group.hasComma

operatorTokens(tokens) == {i \in 1..Len(tokens) : tokens[i].type = "operator"}

\* the operators of the output: the operator characters outside strings,
\* a two-character operator counted at its first character
operatorsOf(out) ==
  {j \in outsideOf(out) :
     /\ out[j] \in OPERATORS
     /\ ~(j - 1 \in outsideOf(out) /\ <<out[j - 1], out[j]>> \in TWOCHAR)}

\* C22: in the output a unary + or - (preceded by nothing, by an operator
\* or by one of ( { , ;) is directly followed by its operand; every other
\* operator is followed by exactly one space and, unless it is the first
\* thing in the output, preceded by exactly one space.
C22_OperatorSpacing ==
  cmds = <<"formatSingleFormula">> =>
    LET tokens == tokenize(orig)
        ops    == operatorTokens(tokens)
    IN  Cardinality(operatorsOf(doc)) = Cardinality(ops) =>
          \A k \in 1..Cardinality(ops) :
            LET i     == kth(ops, k)
                j     == kth(operatorsOf(doc), k)
                e     == j + Len(tokens[i].value)
                unary == /\ tokens[i].value \in {<<"+">>, <<"-">>}
                         /\ \/ i = 1
                            \/ tokens[i - 1].type = "operator"
                            \/ /\ tokens[i - 1].type = "punct"
                               /\ tokens[i - 1].value \in {<<"(">>, <<"{">>, <<",">>, <<";">>}
            IN  IF unary
                THEN i < Len(tokens) => ~IsWS(At(doc, e))
                ELSE /\ At(doc, e) = " " /\ At(doc, e + 1) # " "
                     /\ j > 1 => At(doc, j - 1) = " " /\ At(doc, j - 2) # " "

\* the index of the parenthesis that closes the one at openParenIndex, by
\* the string rule of the language applied from the opener on; -1 when
\* there is none
closingByStringRule(text, openParenIndex) ==
  LET rest   == SubSeq(text, openParenIndex + 2, Len(text))
      out    == outsideOf(rest)
      closes == {j \in out : rest[j] = ")" /\ depthAt(rest, out, j) = 0}
  IN  IF closes = {} THEN -1 ELSE openParenIndex + Min(closes)

\* the parentheses and commas of a text outside its strings, in order
RECURSIVE punctOutside(_, _, _)
punctOutside(s, out, j) ==
  IF j > Len(s) THEN <<>>
  ELSE (IF j \in out /\ s[j] \in {"(", ")", ","} THEN <<s[j]>> ELSE <<>>)
       \o punctOutside(s, out, j + 1)

RECURSIVE punctTokens(_)
punctTokens(tokens) ==
  IF tokens = <<>> THEN <<>>
  ELSE (IF tokens[1].type = "punct" /\ tokens[1].value \in {<<"(">>, <<")">>, <<",">>}
        THEN tokens[1].value ELSE <<>>)
       \o punctTokens(Tail(tokens))

\* C23: the matcher of the closing parenthesis, the argument splitter and
\* the tokenizer take the same parentheses and commas to be inside a
\* string, by the rule that a string runs to the next single occurrence of
\* its delimiter: the matcher finds the parenthesis that closes the call by
\* that rule, the splitter counts the commas outside strings by that rule,
\* and the tokenizer yields the parentheses and commas outside strings as
\* punctuation tokens.
C23_SameStringRule ==
  validated =>
    \A i \in functionCalls(document) :
      LET openParenIndex == functionCallAt(document, i)
          closeParenIndex == closeParenIndexOf(document, openParenIndex)
          rest == SubSeq(document, openParenIndex + 2, Len(document))
      IN  /\ closeParenIndex = closingByStringRule(document, openParenIndex)
          /\ closeParenIndex # -1 =>
               countFunctionArguments(argsStringOf(document, i))
                 = argumentCount(argsStringOf(document, i))
          /\ (\A k \in 1..Len(rest) : rest[k] # "/") =>
               punctTokens(tokenize(rest)) = punctOutside(rest, outsideOf(rest), 1)

\* C24: in the argument text of a closed call a nested call with its
\* closing parenthesis, at depth 0, is a value on both sides of a gap:
\* there is a finding when it follows a completed value after whitespace
\* only, and when a value follows it after whitespace only.
C24_NestedCallIsValue ==
  validated =>
    \A i \in closedCalls(document) :
      LET argsText == argsStringOf(document, i)
          offset   == functionCallAt(document, i) + 1
          out      == outsideOf(argsText)
          blank(e, b) ==
            e + 1 <= b - 1 /\ \A k \in (e + 1)..(b - 1) : IsWS(argsText[k])
          found(e) == \E k \in findingsOf(i) : missingCommas[k].insert = offset + e
          closeOf(b) == closingByStringRule(argsText, functionCallAt(argsText, b - 1)) + 1
          nested == {b \in out : /\ b - 1 \in functionCalls(argsText)
                                 /\ depthAt(argsText, out, b) = 0
                                 /\ closeOf(b) # 0}
      IN  \A b \in nested :
            /\ \A e \in 1..(b - 2) :
                 ( /\ blank(e, b)
                   /\ depthAt(argsText, out, e + 1) = 0
                   /\ endsValue(argsText, out, e) \/ (e \in out /\ argsText[e] = ")") )
                 => found(e)
            /\ \A b2 \in (closeOf(b) + 2)..Len(argsText) :
                 ( /\ blank(closeOf(b), b2)
                   /\ ~IsWS(argsText[b2])
                   /\ startsValue(argsText, out, b2) \/ b2 \in nested )
                 => found(closeOf(b))


(***************************************************************************)
(* The call site a rewrite step replaces.                                  *)
(***************************************************************************)
\* the start offsets of the expandable calls of every registered function
allExpandableCalls(text) ==
  UNION { expandableCalls(text, CUSTOM_FUNCTIONS[k]) : k \in 1..Len(CUSTOM_FUNCTIONS) }

\* C25: every rewrite step of expandCustomFunctions replaces the expandable
\* call with the smallest start offset among the expandable calls of all the
\* registered functions, whatever the order of the registry.
C25_LeftmostOfAll ==
  [][ rewrites' = rewrites + 1 =>
        LET first == Min(allExpandableCalls(expanded))
        IN  \E k \in 1..Len(CUSTOM_FUNCTIONS) :
              /\ first \in expandableCalls(expanded, CUSTOM_FUNCTIONS[k])
              /\ expanded' = replaceCall(expanded, CUSTOM_FUNCTIONS[k], first) ]_vars


(***************************************************************************)
(* The text a rewrite step puts in the place of a call.                    *)
(***************************************************************************)
\* the template with every placeholder {p_i} replaced, in one pass from left
\* to right, by the i-th value; replaced text is not looked at again
RECURSIVE filledTemplate(_, _, _)
filledTemplate(template, params, values) ==
  LET here == {i \in 1..Len(params) :
                 startsWith(template, <<"{">> \o params[i] \o <<"}">>)}
  IN  IF template = <<>> THEN <<>>
      ELSE IF here = {} THEN
        <<template[1]>> \o filledTemplate(Tail(template), params, values)
      ELSE values[Min(here)]
             \o filledTemplate(SubSeq(template, Len(params[Min(here)]) + 3, Len(template)),
                               params, values)

\* C26: a rewrite step on a call with k arguments, 1 <= k <= n, puts
\* "(" + T + ")" in the place of the call, from its name to its closing
\* parenthesis, T being the template with {p_i} replaced by the trimmed
\* argument i for i <= k and by nothing for i > k, each argument verbatim;
\* the text around the call stays, and a step that finds no call with 1..n
\* arguments leaves the text as it is.
C26_RewriteStep ==
  [][ pc = "for" /\ funcIndex <= Len(CUSTOM_FUNCTIONS) =>
        LET customFunc == CUSTOM_FUNCTIONS[funcIndex]
            calls      == expandableCalls(expanded, customFunc)
            startIndex == Min(calls)
            args       == callArgs(expanded, customFunc, startIndex)
            closeParenIndex ==
              findMatchingParen(expanded, callAt(expanded, customFunc.name, startIndex))
            values == [i \in 1..Len(customFunc.params) |->
                         IF i <= Len(args) THEN trim(args[i]) ELSE <<>>]
        IN  IF calls = {} THEN expanded' = expanded
            ELSE /\ Len(args) >= 1 /\ Len(args) <= Len(customFunc.params)
                 /\ expanded' =
                      SubSeq(expanded, 1, startIndex) \o <<"(">>
                        \o filledTemplate(customFunc.expansion, customFunc.params, values)
                        \o <<")">> \o SubSeq(expanded, closeParenIndex + 2,
                            Len(expanded)) ]_vars


(***************************************************************************)
(* The range of a diagnostic for an argument.                              *)
(***************************************************************************)
\* the count of white space characters at the start of a text
leadingBlanks(s) == Len(s) - Len(trimStart(s))

\* the 0-based offset in the document of the first character of the 1-based
\* argument arg of the call at i, counted from where the argument stands
ownStart(text, i, arg) ==
  LET argsString == argsStringOf(text, i)
      trimmed    == trim(argsString)
      a          == extractFunctionArguments(argsString)[arg]
  IN  functionCallAt(text, i) + 1 + leadingBlanks(argsString) + a.start
        + leadingBlanks(SubSeq(trimmed, a.start + 1, a.end))

\* C27: every type-mismatch and invalid-iso8601 diagnostic reaches from the
\* first to just past the last character of the trimmed text of its own
\* argument, where that argument stands in the call, also when the same
\* text occurs earlier in the argument list.
C27_OwnRange ==
  validated =>
    \A k \in 1..Len(diagnostics) :
      diagnostics[k].code \in {"type-mismatch", "invalid-iso8601"} =>
        LET i == diagnostics[k].call
            a == extractFunctionArguments(argsStringOf(document, i))[diagnostics[k].arg]
        IN  /\ diagnostics[k].start = ownStart(document, i, diagnostics[k].arg)
            /\ diagnostics[k].end = ownStart(document, i, diagnostics[k].arg) + Len(a.text)


(***************************************************************************)
(* The quick fix of a missing comma.                                       *)
(***************************************************************************)
\* a finding as it stands after a character was inserted at the offset pos
movedBy(f, pos) ==
  LET moved(x) == IF x >= pos THEN x + 1 ELSE x
  IN  [start |-> moved(f.start), end |-> moved(f.end - 1) + 1,
       insert |-> moved(f.insert), call |-> moved(f.call)]

\* the findings of a list, as a set
findingSet(list) == {list[k] : k \in 1..Len(list)}

\* C29: the insertion position of every finding is the start of its range
\* and stands right behind the last character of the value before the gap;
\* the quick fix of a finding gives a text whose findings are exactly the
\* other findings, each where the inserted comma has moved it, so that each
\* fix takes one finding away and n fixes reach a text without findings.
C29_QuickFixRemovesOne ==
  /\ [](validated =>
          \A k \in 1..Len(missingCommas) :
            /\ missingCommas[k].insert = missingCommas[k].start
            /\ missingCommas[k].start >= 1
            /\ ~IsWS(document[missingCommas[k].start])
            /\ IsWS(At(document, missingCommas[k].start + 1)))
  /\ [][ validated /\ document' # document =>
           \E k \in 1..Len(missingCommas) :
             /\ document' = SubSeq(document, 1, missingCommas[k].start) \o <<",">>
                              \o SubSeq(document, missingCommas[k].start + 1, Len(document))
             /\ Len(missingCommas') = Len(missingCommas) - 1
             /\ findingSet(missingCommas') =
                  { movedBy(missingCommas[j], missingCommas[k].start) :
                      j \in 1..Len(missingCommas) \ {k} } ]_vars


(***************************************************************************)
(* A read of the form description that fails.                              *)
(***************************************************************************)
\* the call for the file of a folder fails: the file is not there (stat), or
\* the call goes on to read it and it cannot be read or parsed
readFails(cache, file, folderPath) ==
  LET cached == cache[folderPath]
      hit    == /\ cached # <<>>
                /\ cached[1].mtime = file[1].mtime
                /\ \E k \in 1..Len(cached[1].variables) :
                     Len(cached[1].variables[k].values) > 0
  IN  file = <<>> \/ (file[1].json = <<>> /\ ~hit)

\* C30: a call of getVariablesFromFormDescription whose stat, read or parse
\* fails returns an empty table and leaves every entry of the cache as it
\* was; the only tables a call ever stores are the ones parsed from a file.
C30_FailedReadStoresNothing ==
  /\ [](\A f \in DOMAIN formDescriptionCache :
          LET result == getVariablesFromFormDescription(formDescriptionCache, fileSystem[f], f)
          IN  readFails(formDescriptionCache, fileSystem[f], f) =>
                /\ result.variables = <<>>
                /\ result.cache = formDescriptionCache)
  /\ [][ (formDescriptionCache' # formDescriptionCache /\ notifications' = notifications) =>
           \E f \in DOMAIN formDescriptionCache :
             /\ ~readFails(formDescriptionCache, fileSystem[f], f)
             /\ formDescriptionCache' =
                  [formDescriptionCache EXCEPT ![f] =
                     <<[variables |-> currentVariables(fileSystem[f]),
                        mtime |-> fileSystem[f][1].mtime]>>] ]_vars

\* the file of folder 1 cannot be parsed, the notification of its change
\* is processed, its folder has no entry, and the entry of folder 2 from an
\* earlier call is there
C30_Witness ==
  /\ notifications = {}
  /\ fileSystem[1] = <<[json |-> <<>>, mtime |-> 1]>>
  /\ formDescriptionCache[1] = <<>>
  /\ fileSystem[2] = <<[json |-> <<JsonStatus>>, mtime |-> 1]>>
  /\ formDescriptionCache[2] =
       <<[variables |-> extractVariables(JsonStatus, <<>>), mtime |-> 1]>>

====
